---- MODULE Spec2Model ----
(***************************************************************************)
(* A model of the PDF reader of mypypdf (src/mypypdf): the object parser,  *)
(* the cross-reference resolver, the indirect-object cache, the stream     *)
(* filter pipeline, the page-tree walker, the text extractor and the       *)
(* merger that consumes the page lists.                                    *)
(*                                                                         *)
(* Bytes are integers 0..255, a byte string is a sequence of them, and a   *)
(* text string is a sequence of code points.  Indices into byte strings    *)
(* are 0-based as in the source: byte idx of data is data[idx + 1].        *)
(* A function of the source that can raise returns a record with a field   *)
(* exc, "" when nothing was raised and the exception's class otherwise.    *)
(***************************************************************************)
EXTENDS Integers, Sequences, FiniteSets, TLC

\* ------------------------------------------------------------ byte strings

\* an index of a slice of a string of length n, as Python reads it: a negative
\* one counts from the end, and both ends are clamped to 0..n
Clamp(i, n) == IF i < 0 THEN (IF n + i < 0 THEN 0 ELSE n + i) ELSE (IF i > n THEN n ELSE i)

\* data[a:b]
Slice(data, a, b) ==
    LET lo == Clamp(a, Len(data))
        hi == Clamp(b, Len(data))
    IN IF hi <= lo THEN <<>> ELSE SubSeq(data, lo + 1, hi)

\* data[a:]
SliceFrom(data, a) == Slice(data, a, Len(data))

\* the byte at idx, or -1 where data[idx:idx + 1] is empty
At(data, idx) == IF idx >= 0 /\ idx < Len(data) THEN data[idx + 1] ELSE -1

\* data[idx:idx + len(lit)] == lit, for idx >= 0
StartsAt(data, idx, lit) ==
    idx + Len(lit) <= Len(data) /\ SubSeq(data, idx + 1, idx + Len(lit)) = lit

\* the leftmost of the indices in hits, or -1 where there is none
FirstIdx(hits) ==
    IF hits = {} THEN -1 ELSE CHOOSE i \in hits : \A k \in hits : i <= k

\* the first idx >= i whose byte is not in S (or len(data))
SkipWhile(data, i, S) ==
    IF i >= Len(data) THEN i
    ELSE CHOOSE j \in i..Len(data) :
            /\ (j = Len(data) \/ data[j + 1] \notin S)
            /\ \A k \in i..(j - 1) : data[k + 1] \in S

\* data.find(lit, start): the first idx >= start where lit occurs, or -1
Find(data, lit, start) ==
    LET last == Len(data) - Len(lit)
    IN IF \E i \in start..last : StartsAt(data, i, lit)
       THEN CHOOSE i \in start..last :
               /\ StartsAt(data, i, lit)
               /\ \A k \in start..(i - 1) : ~StartsAt(data, k, lit)
       ELSE -1

\* F applied to v: the value v computed once and named in the body of F
Let(v, F(_)) == F(v)

\* b" \t\r\n", the whitespace the object parser skips
ParserWs == {32, 9, 13, 10}

\* \s of a bytes pattern of re: [ \t\n\r\f\v]; also what bytes.strip and split use
ReSpace == {32, 9, 10, 13, 12, 11}

\* b"0123456789"
DigitBytes == 48..57

\* the value of a run of decimal digits
RECURSIVE DecVal(_)
DecVal(ds) ==
    IF ds = <<>> THEN 0 ELSE 10 * DecVal(SubSeq(ds, 1, Len(ds) - 1)) + (ds[Len(ds)] - 48)

\* the value of a run of octal digits, as int(octal, 8) computes it
RECURSIVE OctVal(_)
OctVal(ds) ==
    IF ds = <<>> THEN 0 ELSE 8 * OctVal(SubSeq(ds, 1, Len(ds) - 1)) + (ds[Len(ds)] - 48)

\* --------------------------------------------------------------- literals

kw_null == <<110, 117, 108, 108>>                            \* b"null"
kw_true == <<116, 114, 117, 101>>                            \* b"true"
kw_false == <<102, 97, 108, 115, 101>>                       \* b"false"
kw_dict_open == <<60, 60>>                                   \* b"<<"
kw_dict_close == <<62, 62>>                                  \* b">>"

\* b"0123456789+-.", the lookahead bytes of a number
NumberStart == DigitBytes \cup {43, 45, 46}

\* b" \t\r\n<>[](){}/%", the bytes that end a name
NameEnd == {32, 9, 13, 10, 60, 62, 91, 93, 40, 41, 123, 125, 47, 37}

\* ----------------------------------------------------------- object model

NullObject == [t |-> "Null"]

BooleanObject(b) == [t |-> "Bool", v |-> b]

\* NumberObject(int(s)): an integer
IntObject(n) == [t |-> "Num", real |-> FALSE, neg |-> n < 0, v |-> n, frac |-> <<>>]

\* NumberObject(float(s)): neg is the sign written, v the value truncated
\* towards zero, as int() of the float gives it, frac the digits after the
\* point without trailing zeros
RECURSIVE StripZeros(_)
StripZeros(ds) ==
    IF ds # <<>> /\ ds[Len(ds)] = 48 THEN StripZeros(SubSeq(ds, 1, Len(ds) - 1)) ELSE ds

RealObject(neg, n, fracDigits) ==
    [t |-> "Num", real |-> TRUE, neg |-> neg, v |-> n, frac |-> StripZeros(fracDigits)]

\* NameObject(name): the name keeps its leading "/"
NameObject(name) ==
    [t |-> "Name", name |-> IF name # <<>> /\ name[1] = 47 THEN name ELSE <<47>> \o name]

StringObject(text) == [t |-> "Str", hex |-> FALSE, v |-> text]

HexStringObject(text) == [t |-> "Str", hex |-> TRUE, v |-> text]

ArrayObject(items) == [t |-> "Array", items |-> items]

\* a DictionaryObject: d maps the keys' names to the values
DictionaryObject(d) == [t |-> "Dict", d |-> d]

EmptyDict == [k \in {} |-> NullObject]

\* StreamObject(data) updated with the dictionary d; the decoded buffer is not
\* part of the value: no operation of the reader changes a parsed stream's raw
\* bytes or entries, so decode_data of it is a function of the two
StreamObject(d, data) == [t |-> "Stream", d |-> d, data |-> data]

IndirectObject(num, gen) == [t |-> "Ref", num |-> num, gen |-> gen]

\* a PageObject: a dictionary that is a page of a reader
PageObject(d) == [t |-> "Page", d |-> d]

IsDictLike(o) == o.t \in {"Dict", "Stream", "Page"}

\* d[key] = value
DictSet(d, key, value) ==
    [k \in DOMAIN d \cup {key} |-> IF k = key THEN value ELSE d[k]]

\* d.get(key) of a dictionary-like object, None being [t |-> "None"]
None == [t |-> "None"]

DictGet(o, key) == IF key \in DOMAIN o.d THEN o.d[key] ELSE None

\* bool(o): Boolean, Array and Dictionary objects define it, every other
\* object is true
Truthy(o) ==
    CASE o.t = "None" -> FALSE
      [] o.t = "Bool" -> o.v
      [] o.t = "Array" -> o.items # <<>>
      [] o.t \in {"Dict", "Stream", "Page"} -> DOMAIN o.d # {}
      [] OTHER -> TRUE

\* ----------------------------------------------------------- object parser

\* what a parsing function returns: the object, the cursor, the exception
Parsed(obj, idx) == [obj |-> obj, idx |-> idx, exc |-> ""]

Raised(exc, idx) == [obj |-> None, idx |-> idx, exc |-> exc]

\* re.match(rb"([+-]?\d+\.?\d*)", data[idx:]): the end of the match, or -1
NumberMatchEnd(data, idx) ==
    Let(IF At(data, idx) \in {43, 45} THEN idx + 1 ELSE idx, LAMBDA s :
    Let(SkipWhile(data, s, DigitBytes), LAMBDA e1 :
    IF e1 = s THEN -1
    ELSE IF At(data, e1) = 46 THEN SkipWhile(data, e1 + 1, DigitBytes) ELSE e1))

\* int(num_str) or float(num_str) of the matched number text
NumberOf(text) ==
    Let(IF text[1] \in {43, 45} THEN SubSeq(text, 2, Len(text)) ELSE text, LAMBDA body :
    Let(SkipWhile(body, 0, DigitBytes), LAMBDA ip :
    Let(DecVal(SubSeq(body, 1, ip)), LAMBDA mag :
    Let(IF text[1] = 45 THEN 0 - mag ELSE mag, LAMBDA val :
    IF ip < Len(body)
    THEN RealObject(text[1] = 45, val, SubSeq(body, ip + 2, Len(body)))
    ELSE IntObject(val)))))

\* re.match(rb"(\d+)\s+(\d+)\s+R", data[idx:]): <<obj_num, gen_num, end>> or <<>>
RefMatch(data, idx) ==
    Let(SkipWhile(data, idx, DigitBytes), LAMBDA e1 :
    Let(SkipWhile(data, e1, ReSpace), LAMBDA s2 :
    Let(SkipWhile(data, s2, DigitBytes), LAMBDA e2 :
    Let(SkipWhile(data, e2, ReSpace), LAMBDA s3 :
    IF e1 > idx /\ s2 > e1 /\ e2 > s2 /\ s3 > e2 /\ At(data, s3) = 82
    THEN <<DecVal(Slice(data, idx, e1)), DecVal(Slice(data, s2, e2)), s3 + 1>>
    ELSE <<>>))))

\* the escapes of a literal string that stand for one character
SimpleEscape(esc) ==
    CASE esc = 110 -> <<10>>
      [] esc = 114 -> <<13>>
      [] esc = 116 -> <<9>>
      [] esc = 98 -> <<8>>
      [] esc = 102 -> <<12>>
      [] esc = 40 -> <<40>>
      [] esc = 41 -> <<41>>
      [] esc = 92 -> <<92>>
      [] OTHER -> <<>>

\* the loop of _parse_literal_string
RECURSIVE LiteralLoop(_, _, _, _)
LiteralLoop(data, idx, depth, result) ==
    LET Digit(i) == i < Len(data) /\ At(data, i) \in DigitBytes
        Octal(end) ==
            Let(Slice(data, idx + 1, end), LAMBDA octal :
            IF \E i \in 1..Len(octal) : octal[i] \in {56, 57}
            THEN Raised("ValueError", end - 1)
            ELSE LiteralLoop(data, end, depth, Append(result, OctVal(octal))))
        Escape(esc) ==
            IF esc \in DigitBytes
            THEN Octal(IF Digit(idx + 2) THEN (IF Digit(idx + 3) THEN idx + 4 ELSE idx + 3)
                       ELSE idx + 2)
            ELSE LiteralLoop(data, idx + 2, depth, result \o SimpleEscape(esc))
        Char(char) ==
            IF char = 92
            THEN IF idx + 1 >= Len(data) THEN Parsed(StringObject(result), idx + 1)
                 ELSE Escape(At(data, idx + 1))
            ELSE IF char = 40 THEN LiteralLoop(data, idx + 1, depth + 1, Append(result, 40))
            ELSE IF char = 41
                 THEN LiteralLoop(data, idx + 1, depth - 1,
                                  IF depth - 1 > 0 THEN Append(result, 41) ELSE result)
            ELSE LiteralLoop(data, idx + 1, depth, Append(result, char))
    IN IF ~(idx < Len(data) /\ depth > 0) THEN Parsed(StringObject(result), idx)
       ELSE Char(At(data, idx))

\* _parse_literal_string that does not step over the opening parenthesis
_parse_literal_string_in_place(data, idx) == Parsed(StringObject(<<>>), idx)

_parse_literal_string(data, idx) == LiteralLoop(data, idx + 1, 1, <<>>)

\* the value of a hexadecimal digit, or -1
HexVal(c) ==
    IF c \in 48..57 THEN c - 48
    ELSE IF c \in 97..102 THEN c - 87
    ELSE IF c \in 65..70 THEN c - 55
    ELSE -1

\* bytes.fromhex(text): pairs of hexadecimal digits, ASCII whitespace between
\* the pairs skipped; <<-1>> for ValueError
RECURSIVE FromHex(_, _)
FromHex(text, i) ==
    Let(SkipWhile(text, i, ReSpace), LAMBDA j :
    IF j >= Len(text) THEN <<>>
    ELSE IF HexVal(At(text, j)) < 0 \/ HexVal(At(text, j + 1)) < 0 THEN <<-1>>
    ELSE Let(FromHex(text, j + 2), LAMBDA rest :
         IF rest = <<-1>> THEN rest
         ELSE <<16 * HexVal(At(text, j)) + HexVal(At(text, j + 1))>> \o rest))

\* the bytes of data that are not in S, in order: the replace(b, b"") calls
RECURSIVE Without(_, _)
Without(data, S) ==
    IF data = <<>> THEN <<>>
    ELSE (IF data[1] \in S THEN <<>> ELSE <<data[1]>>) \o Without(Tail(data), S)

_parse_hex_string(data, idx) ==
    Let(Find(data, <<62>>, idx + 1), LAMBDA f :
    Let(IF f = -1 THEN Len(data) ELSE f, LAMBDA end :
    Let(Without(Slice(data, idx + 1, end), {32, 10, 13}), LAMBDA stripped :
    Let(IF Len(stripped) % 2 = 1 THEN Append(stripped, 48) ELSE stripped, LAMBDA hex_data :
    Let(IF \E i \in 1..Len(hex_data) : hex_data[i] > 127 THEN <<-1>>
        ELSE FromHex(hex_data, 0), LAMBDA bytes :
    Parsed(HexStringObject(IF bytes = <<-1>> THEN <<>> ELSE bytes), end + 1))))))

RECURSIVE _parse_object(_, _)
RECURSIVE ArrayLoop(_, _, _)
RECURSIVE DictLoop(_, _, _)

\* the loop of _parse_array
ArrayLoop(data, idx0, arr) ==
    LET idx == SkipWhile(data, idx0, ParserWs)
        Item(r) == IF r.exc # "" THEN r ELSE ArrayLoop(data, r.idx, Append(arr, r.obj))
    IN CASE ~(idx0 < Len(data)) -> Parsed(ArrayObject(arr), idx0)
         [] idx0 < Len(data) /\ (idx >= Len(data) \/ At(data, idx) = 93) ->
                Parsed(ArrayObject(arr), idx + 1)
         [] OTHER -> Item(_parse_object(data, idx))

_parse_array(data, idx) == ArrayLoop(data, idx + 1, <<>>)

\* the loop of _parse_dictionary
DictLoop(data, idx0, d) ==
    LET idx == SkipWhile(data, idx0, ParserWs)
        Value(key, value) ==
            IF value.exc # "" THEN value
            ELSE DictLoop(data, value.idx, DictSet(d, key.obj.name, value.obj))
        Key(key) == Value(key, _parse_object(data, SkipWhile(data, key.idx, ParserWs)))
    IN CASE ~(idx0 < Len(data)) -> Parsed(DictionaryObject(d), idx0)
         [] idx0 < Len(data) /\ (idx >= Len(data) \/ StartsAt(data, idx, kw_dict_close)) ->
                Parsed(DictionaryObject(d), idx + 2)
         [] idx < Len(data) /\ ~StartsAt(data, idx, kw_dict_close) /\ At(data, idx) # 47 ->
                DictLoop(data, idx + 1, d)
         [] OTHER -> Key(_parse_object(data, idx))

_parse_dictionary(data, idx) == DictLoop(data, idx + 2, EmptyDict)

\* The tests of _parse_object are made in the order of the source; the arms
\* below are disjoint, each holding the negation of the tests before it where
\* the bytes do not already exclude them.
_parse_object(data, idx0) ==
    LET Reference(ref) == Parsed(IndirectObject(ref[1], ref[2]), ref[3])
        Value(idx, char, num, ref) ==
            CASE idx >= Len(data) -> Parsed(NullObject, idx)
              [] StartsAt(data, idx, kw_null) -> Parsed(NullObject, idx + 4)
              [] StartsAt(data, idx, kw_true) -> Parsed(BooleanObject(TRUE), idx + 4)
              [] StartsAt(data, idx, kw_false) -> Parsed(BooleanObject(FALSE), idx + 5)
              [] char \in NumberStart /\ num # -1 ->
                     Parsed(NumberOf(Slice(data, idx, num)), num)
              [] char \in NumberStart /\ num = -1 /\ ref # <<>> -> Reference(ref)
              [] char = 47 ->
                     Let(SkipWhile(data, idx + 1, 0..255 \ NameEnd), LAMBDA end :
                     Parsed(NameObject(Slice(data, idx, end)), end))
              [] char = 40 -> _parse_literal_string(data, idx)
              [] char = 60 /\ At(data, idx + 1) = 60 -> _parse_dictionary(data, idx)
              [] char = 60 /\ At(data, idx + 1) # 60 -> _parse_hex_string(data, idx)
              [] char = 91 -> _parse_array(data, idx)
              [] OTHER -> IF StartsAt(data, idx, kw_dict_open)
                          THEN _parse_dictionary(data, idx)
                          ELSE IF ref # <<>> THEN Reference(ref)
                          ELSE Parsed(NullObject, idx + 1)
        At0(idx) == Value(idx, At(data, idx), NumberMatchEnd(data, idx), RefMatch(data, idx))
    IN At0(SkipWhile(data, idx0, ParserWs))

\* ---------------------------------------------------- stream filter pipeline

n_Filter == <<47, 70, 105, 108, 116, 101, 114>>                         \* "/Filter"
n_FlateDecode == <<47, 70, 108, 97, 116, 101, 68, 101, 99, 111, 100, 101>> \* "/FlateDecode"
n_Fl == <<47, 70, 108>>                                                 \* "/Fl"

\* int.from_bytes(bs, "big")
RECURSIVE FromBytesBig(_)
FromBytesBig(bs) ==
    IF bs = <<>> THEN 0 ELSE 256 * FromBytesBig(SubSeq(bs, 1, Len(bs) - 1)) + bs[Len(bs)]

\* the Adler-32 sums <<a, b>> of bs, continued from <<a0, b0>>
RECURSIVE Adler(_, _, _)
Adler(bs, a0, b0) ==
    IF bs = <<>> THEN <<a0, b0>>
    ELSE Adler(Tail(bs), (a0 + bs[1]) % 65521, (b0 + ((a0 + bs[1]) % 65521)) % 65521)

\* the deflate blocks of data from idx on, for stored blocks (BTYPE 00): the
\* payload and the index after the final block, or ok = FALSE
RECURSIVE StoredBlocks(_, _)
StoredBlocks(data, idx) ==
    Let(At(data, idx), LAMBDA hdr :
    Let(At(data, idx + 1) + 256 * At(data, idx + 2), LAMBDA len :
    Let(At(data, idx + 3) + 256 * At(data, idx + 4), LAMBDA nlen :
    Let(Slice(data, idx + 5, idx + 5 + len), LAMBDA body :
    IF idx + 5 > Len(data) \/ (hdr % 8) \notin {0, 1} \/ len + nlen # 65535
       \/ Len(body) < len
    THEN [ok |-> FALSE, out |-> <<>>, idx |-> idx]
    ELSE IF hdr % 8 = 1 THEN [ok |-> TRUE, out |-> body, idx |-> idx + 5 + len]
    ELSE Let(StoredBlocks(data, idx + 5 + len), LAMBDA rest :
         [ok |-> rest.ok, out |-> body \o rest.out, idx |-> rest.idx])))))

\* zlib.decompress(data) of the library, for zlib streams of stored blocks: the
\* header check, the blocks, the Adler-32 of the payload; bytes after the
\* stream are ignored.  ok = FALSE is zlib.error.  (Streams with Huffman-coded
\* blocks are outside the model: no input of the model holds one.)
ZlibDecompress(data) ==
    Let(At(data, 0), LAMBDA cmf :
    Let(At(data, 1), LAMBDA flg :
    Let(StoredBlocks(data, 2), LAMBDA blocks :
    Let(Adler(blocks.out, 1, 0), LAMBDA sums :
    IF Len(data) < 2 \/ cmf % 16 # 8 \/ cmf \div 16 > 7
       \/ (256 * cmf + flg) % 31 # 0 \/ (flg \div 32) % 2 = 1
       \/ ~blocks.ok \/ blocks.idx + 4 > Len(data)
       \/ FromBytesBig(Slice(data, blocks.idx, blocks.idx + 4)) # 65536 * sums[2] + sums[1]
    THEN [ok |-> FALSE, out |-> <<>>]
    ELSE [ok |-> TRUE, out |-> blocks.out]))))

\* str(f) in ("/FlateDecode", "/Fl") for an entry f of the filter list
IsFlate(f) ==
    \/ f.t = "Name" /\ f.name \in {n_FlateDecode, n_Fl}
    \/ f.t = "Str" /\ f.v \in {n_FlateDecode, n_Fl}

\* the loop over the filters without the except clause's fallback: a payload
\* that does not inflate leaves no data
RECURSIVE ApplyFiltersNoFallback(_, _)
ApplyFiltersNoFallback(filters, data) ==
    IF filters = <<>> THEN data
    ELSE IF ~IsFlate(filters[1]) THEN ApplyFiltersNoFallback(Tail(filters), data)
    ELSE ApplyFiltersNoFallback(Tail(filters), ZlibDecompress(data).out)

\* the loop over the filters: data after each of them, in order
RECURSIVE ApplyFilters(_, _)
ApplyFilters(filters, data) ==
    IF filters = <<>> THEN data
    ELSE IF ~IsFlate(filters[1]) THEN ApplyFilters(Tail(filters), data)
    ELSE Let(ZlibDecompress(data), LAMBDA z :
         ApplyFilters(Tail(filters), IF z.ok THEN z.out ELSE data))

\* the keys of a dictionary in some order, as iterating it gives them
RECURSIVE KeysOf(_)
KeysOf(d) ==
    IF DOMAIN d = {} THEN <<>>
    ELSE Let(CHOOSE k \in DOMAIN d : TRUE, LAMBDA k :
         <<NameObject(k)>> \o KeysOf([j \in DOMAIN d \ {k} |-> d[j]]))

\* decode_data of a stream with entries d, raw bytes data and no decoded
\* buffer yet: the decoded bytes, or the exception of iterating a /Filter
\* that is neither a name nor a list
DecodeBytes(d, data) ==
    Let(IF n_Filter \in DOMAIN d THEN d[n_Filter] ELSE None, LAMBDA filters :
    IF ~Truthy(filters) THEN [out |-> data, exc |-> ""]
    ELSE IF filters.t = "Name" THEN [out |-> ApplyFilters(<<filters>>, data), exc |-> ""]
    ELSE IF filters.t = "Array" THEN [out |-> ApplyFilters(filters.items, data), exc |-> ""]
    ELSE IF IsDictLike(filters)
         THEN [out |-> ApplyFilters(KeysOf(filters.d), data), exc |-> ""]
    ELSE [out |-> <<>>, exc |-> "TypeError"])

\* -------------------------------------------------- indirect object resolver

kw_obj == <<111, 98, 106>>                                           \* b"obj"
kw_stream == <<115, 116, 114, 101, 97, 109>>                         \* b"stream"
kw_endstream == <<101, 110, 100, 115, 116, 114, 101, 97, 109>>       \* b"endstream"
n_Length == <<47, 76, 101, 110, 103, 116, 104>>                      \* "/Length"

\* re.match(rb"(\d+)\s+(\d+)\s+obj\s*", data): <<obj_num, gen_num, end>> or <<>>
HeaderMatch(data) ==
    Let(SkipWhile(data, 0, DigitBytes), LAMBDA e1 :
    Let(SkipWhile(data, e1, ReSpace), LAMBDA s2 :
    Let(SkipWhile(data, s2, DigitBytes), LAMBDA e2 :
    Let(SkipWhile(data, e2, ReSpace), LAMBDA s3 :
    IF e1 > 0 /\ s2 > e1 /\ e2 > s2 /\ s3 > e2 /\ StartsAt(data, s3, kw_obj)
    THEN <<DecVal(Slice(data, 0, e1)), DecVal(Slice(data, s2, e2)),
           SkipWhile(data, s3 + 3, ReSpace)>>
    ELSE <<>>))))

\* re.match(rb"\s*stream\r?\n", data[idx:]): the end of the match in data, or -1
StreamMatch(data, idx) ==
    Let(SkipWhile(data, idx, ReSpace), LAMBDA s :
    IF ~StartsAt(data, s, kw_stream) THEN -1
    ELSE IF At(data, s + 6) = 13 /\ At(data, s + 7) = 10 THEN s + 8
    ELSE IF At(data, s + 6) = 10 THEN s + 7
    ELSE -1)

\* re.search(rb"\r?\nendstream", data[idx:]): <<start, end>> in data, or <<>>
EndstreamSearch(data, idx) ==
    LET AtCrLf(p) == At(data, p) = 13 /\ At(data, p + 1) = 10
                     /\ StartsAt(data, p + 2, kw_endstream)
        AtLf(p) == At(data, p) = 10 /\ StartsAt(data, p + 1, kw_endstream)
        Hit(p) == AtCrLf(p) \/ AtLf(p)
    IN Let(FirstIdx({p \in idx..(Len(data) - 1) : Hit(p)}), LAMBDA p :
       IF p = -1 THEN <<>>
       ELSE IF AtCrLf(p) THEN <<p, p + 11>> ELSE <<p, p + 10>>)

\* the object number get_object looks up for ref: an IndirectObject's number,
\* int(ref) otherwise (an integer, or a NumberObject through __int__)
ObjNumOf(ref) ==
    IF ref.t = "Ref" THEN [num |-> ref.num, exc |-> ""]
    ELSE IF ref.t = "Num" THEN [num |-> ref.v, exc |-> ""]
    ELSE [num |-> 0, exc |-> "TypeError"]

\* stream_obj.update(obj): the entries of the new stream.  A dictionary gives
\* its entries and an empty array none; an array of [name value] pairs gives
\* those; any other object is not iterable as entries.
RECURSIVE PairsOf(_)
PairsOf(items) ==
    IF items = <<>> THEN EmptyDict
    ELSE DictSet(PairsOf(SubSeq(items, 1, Len(items) - 1)),
                 items[Len(items)].items[1].name, items[Len(items)].items[2])

UpdateFrom(obj) ==
    IF IsDictLike(obj) THEN [d |-> obj.d, exc |-> ""]
    ELSE IF obj.t = "Array"
              /\ \A i \in 1..Len(obj.items) :
                    /\ obj.items[i].t = "Array"
                    /\ Len(obj.items[i].items) = 2
                    /\ obj.items[i].items[1].t = "Name"
         THEN [d |-> PairsOf(obj.items), exc |-> ""]
    ELSE [d |-> EmptyDict, exc |-> "TypeError"]

\* text.strip(): text without its leading and trailing whitespace
Strip(text) ==
    Let(SkipWhile(text, 0, ReSpace), LAMBDA lo :
    Slice(text, lo, IF lo >= Len(text) THEN lo
                    ELSE CHOOSE j \in (lo + 1)..Len(text) :
                            /\ text[j] \notin ReSpace
                            /\ \A k \in (j + 1)..Len(text) : text[k] \in ReSpace))

\* int(text) of a byte or text string: whitespace around it, a sign, decimal
\* digits with single underscores between them; ValueError otherwise
PyInt(text) ==
    Let(Strip(text), LAMBDA t :
    LET signed == t # <<>> /\ t[1] \in {43, 45}
    IN Let(IF signed THEN Tail(t) ELSE t, LAMBDA rest :
       IF /\ rest # <<>>
          /\ \A i \in 1..Len(rest) : rest[i] \in DigitBytes \cup {95}
          /\ rest[1] # 95 /\ rest[Len(rest)] # 95
          /\ \A i \in 1..(Len(rest) - 1) : ~(rest[i] = 95 /\ rest[i + 1] = 95)
       THEN [v |-> IF signed /\ t[1] = 45 THEN 0 - DecVal(Without(rest, {95}))
                   ELSE DecVal(Without(rest, {95})),
             exc |-> ""]
       ELSE [v |-> 0, exc |-> "ValueError"]))

\* int(o.value): of a Number, Boolean or String object; no other object has
\* the attribute
IntOfValueAttr(o) ==
    CASE o.t = "Num" -> [v |-> o.v, exc |-> ""]
      [] o.t = "Bool" -> [v |-> IF o.v THEN 1 ELSE 0, exc |-> ""]
      [] o.t = "Str" -> PyInt(o.v)
      [] OTHER -> [v |-> 0, exc |-> "AttributeError"]

\* int(o.value if hasattr(o, "value") else o)
IntOfValue(o) ==
    IF o.t \in {"Num", "Bool", "Str"} THEN IntOfValueAttr(o)
    ELSE [v |-> 0, exc |-> "TypeError"]

RECURSIVE get_object(_, _, _, _, _)
RECURSIVE _parse_indirect_object(_, _, _, _, _)

\* _parse_indirect_object(offset) on a reader with buffer buf, xref map xref
\* and cache objects: the object, the cursor, the cache afterwards and the
\* object numbers parsed on the way.  active holds the object numbers whose
\* get_object call is on the stack: asking for one of them again recurses
\* without end, which the interpreter ends with RecursionError.
_parse_indirect_object(buf, xref, objects, offset, active) ==
    LET Result(obj, idx, objs, parsed, exc) ==
            [obj |-> obj, idx |-> idx, objects |-> objs, parsed |-> parsed, exc |-> exc]
        Stream(data, v, body, length_obj, hop) ==
            Let(IF Truthy(hop.ret) THEN IntOfValue(hop.ret) ELSE [v |-> 0, exc |-> ""],
                LAMBDA hopInt :
            Let(IF length_obj.t = "Num" THEN length_obj.v ELSE hopInt.v, LAMBDA length :
            Let(EndstreamSearch(data, body), LAMBDA es :
            Let(UpdateFrom(v.obj), LAMBDA upd :
            LET stream_data == IF length # 0 THEN Slice(data, body, body + length)
                               ELSE IF es # <<>> THEN Slice(data, body, es[1])
                               ELSE <<>>
                idx == IF length # 0 THEN body + length
                       ELSE IF es # <<>> THEN es[2]
                       ELSE body
            IN IF hop.exc # "" THEN Result(None, offset, hop.objects, hop.parsed, hop.exc)
               ELSE IF hopInt.exc # ""
                    THEN Result(None, offset, hop.objects, hop.parsed, hopInt.exc)
               ELSE IF upd.exc # ""
                    THEN Result(None, offset, hop.objects, hop.parsed, upd.exc)
               ELSE Result(StreamObject(upd.d, stream_data), offset + idx,
                           hop.objects, hop.parsed, "")))))
    IN Let(SliceFrom(buf, offset), LAMBDA data :
       Let(HeaderMatch(data), LAMBDA header :
       IF header = <<>> THEN Result(None, offset, objects, <<>>, "")
       ELSE Let(_parse_object(data, header[3]), LAMBDA v :
            Let(StreamMatch(data, v.idx), LAMBDA body :
            IF v.exc # "" THEN Result(None, offset, objects, <<>>, v.exc)
            ELSE IF body = -1 THEN Result(v.obj, offset + v.idx, objects, <<>>, "")
            ELSE Let(IF v.obj.t = "Dict" THEN DictGet(v.obj, n_Length) ELSE None,
                     LAMBDA length_obj :
                 Stream(data, v, body, length_obj,
                        IF length_obj.t = "Ref"
                        THEN get_object(buf, xref, objects, length_obj, active)
                        ELSE [ret |-> None, objects |-> objects, parsed |-> <<>>,
                              exc |-> ""]))))))

\* get_object(ref) that also stores the None of a miss in the cache
get_object_caching_miss(buf, xref, objects, ref, active) ==
    LET n == ObjNumOf(ref)
        Result(ret, objs, parsed, exc) ==
            [ret |-> ret, objects |-> objs, parsed |-> parsed, exc |-> exc]
    IN IF n.exc # "" THEN Result(None, objects, <<>>, n.exc)
       ELSE IF n.num \in DOMAIN objects THEN Result(objects[n.num], objects, <<>>, "")
       ELSE IF n.num \notin DOMAIN xref
            THEN Result(None, DictSet(objects, n.num, None), <<>>, "")
       ELSE IF n.num \in active THEN Result(None, objects, <<>>, "RecursionError")
       ELSE Let(_parse_indirect_object(buf, xref, objects, xref[n.num][1],
                                       active \cup {n.num}), LAMBDA r :
            IF r.exc # "" THEN Result(None, r.objects, <<n.num>> \o r.parsed, r.exc)
            ELSE Result(r.obj, DictSet(r.objects, n.num, r.obj),
                        <<n.num>> \o r.parsed, ""))

\* get_object(ref): the object returned, the cache afterwards, the object
\* numbers parsed from the buffer by this call
get_object(buf, xref, objects, ref, active) ==
    LET n == ObjNumOf(ref)
        Result(ret, objs, parsed, exc) ==
            [ret |-> ret, objects |-> objs, parsed |-> parsed, exc |-> exc]
    IN IF n.exc # "" THEN Result(None, objects, <<>>, n.exc)
       ELSE IF n.num \in DOMAIN objects THEN Result(objects[n.num], objects, <<>>, "")
       ELSE IF n.num \notin DOMAIN xref THEN Result(None, objects, <<>>, "")
       ELSE IF n.num \in active THEN Result(None, objects, <<>>, "RecursionError")
       ELSE Let(_parse_indirect_object(buf, xref, objects, xref[n.num][1],
                                       active \cup {n.num}), LAMBDA r :
            IF r.exc # "" THEN Result(None, r.objects, <<n.num>> \o r.parsed, r.exc)
            ELSE Result(r.obj, DictSet(r.objects, n.num, r.obj),
                        <<n.num>> \o r.parsed, ""))

\* ------------------------------------------------- cross-reference resolver

kw_xref == <<120, 114, 101, 102>>                                    \* b"xref"
kw_trailer == <<116, 114, 97, 105, 108, 101, 114>>                   \* b"trailer"
kw_startxref == <<115, 116, 97, 114, 116, 120, 114, 101, 102>>       \* b"startxref"
n_Prev == <<47, 80, 114, 101, 118>>                                  \* "/Prev"
n_W == <<47, 87>>                                                    \* "/W"
n_Size == <<47, 83, 105, 122, 101>>                                  \* "/Size"
n_Index == <<47, 73, 110, 100, 101, 120>>                            \* "/Index"
n_Encrypt == <<47, 69, 110, 99, 114, 121, 112, 116>>                 \* "/Encrypt"

\* the bytes of the window in which _parse looks for startxref
TailWindow == 1024

\* the bytes before the cursor from which the trailer keyword is searched
TrailerLookback == 100

\* the bytes of one entry of a classic table
EntryLen == 20

\* line.split(): the runs of bytes between whitespace
RECURSIVE Split(_, _)
Split(text, i) ==
    Let(SkipWhile(text, i, ReSpace), LAMBDA s :
    Let(SkipWhile(text, s, 0..255 \ ReSpace), LAMBDA e :
    IF s >= Len(text) THEN <<>> ELSE <<Slice(text, s, e)>> \o Split(text, e)))

\* the entries of one subsection of a classic table, count entries from idx
\* on: the map with every in-use entry whose object number it did not hold
SubsectionEntries(data, idx, start_obj, count, xref) ==
    LET Line(i) == Slice(data, idx + EntryLen * i, idx + EntryLen * i + EntryLen)
        Offset(line) == PyInt(Slice(line, 0, 10))
        Gen(line) == PyInt(Slice(line, 11, 16))
        InUse(line) == /\ Len(line) >= 18
                       /\ Offset(line).exc = ""
                       /\ Gen(line).exc = ""
                       /\ Slice(line, 17, 18) = <<110>>
        last == IF idx >= Len(data) THEN -1 ELSE (Len(data) - idx) \div EntryLen
    IN Let({i \in 0..(IF count - 1 < last THEN count - 1 ELSE last) :
               InUse(Line(i)) /\ (start_obj + i) \notin DOMAIN xref}, LAMBDA new :
       [n \in DOMAIN xref \cup {start_obj + i : i \in new} |->
           IF n \in DOMAIN xref THEN xref[n]
           ELSE Let(Line(n - start_obj), LAMBDA line : <<Offset(line).v, Gen(line).v>>)])

\* the loop over the lines of a classic table: the cursor and the map after it
RECURSIVE TableLines(_, _, _)
TableLines(data, idx, xref) ==
    LET Subsection(next, parts) ==
            Let(PyInt(parts[1]), LAMBDA start_obj :
            Let(PyInt(parts[2]), LAMBDA count :
            IF start_obj.exc # "" \/ count.exc # "" THEN TableLines(data, next, xref)
            ELSE TableLines(data, next + EntryLen * (IF count.v > 0 THEN count.v ELSE 0),
                            SubsectionEntries(data, next, start_obj.v, count.v, xref))))
    IN Let(Find(data, <<10>>, idx), LAMBDA line_end :
       Let(Strip(Slice(data, idx, line_end)), LAMBDA line :
       Let(Split(line, 0), LAMBDA parts :
       IF line_end = -1 THEN [idx |-> idx, xref |-> xref]
       ELSE IF StartsAt(line, 0, kw_trailer) THEN [idx |-> line_end + 1, xref |-> xref]
       ELSE IF line = <<>> \/ line = kw_xref \/ Len(parts) # 2
            THEN TableLines(data, line_end + 1, xref)
       ELSE Subsection(line_end + 1, parts))))

\* re.search(rb"trailer\s*<<(.+?)>>", d, re.DOTALL): b"<<" + group(1) + b">>",
\* or <<>> when there is no match
TrailerMatch(d) ==
    LET Open(p) == SkipWhile(d, p + 7, ReSpace)
        Close(p) == Find(d, kw_dict_close, Open(p) + 3)
        Hit(p) == /\ StartsAt(d, p, kw_trailer)
                  /\ StartsAt(d, Open(p), kw_dict_open)
                  /\ Close(p) # -1
    IN Let(FirstIdx({p \in 0..(Len(d) - 1) : Hit(p)}), LAMBDA p :
       IF p = -1 THEN <<>> ELSE Slice(d, Open(p), Close(p) + 2))

\* the state of a reader while it is built: the xref map, the trailer, the
\* cache, and the exception that ended the parsing
Building(xref, trailer, objects, exc) ==
    [xref |-> xref, trailer |-> trailer, objects |-> objects, exc |-> exc]

\* the fields of one entry of an xref stream, from data_idx on
RECURSIVE EntryFields(_, _, _)
EntryFields(data, w, data_idx) ==
    IF w = <<>> THEN [fields |-> <<>>, data_idx |-> data_idx]
    ELSE Let(EntryFields(data, Tail(w), data_idx + w[1]), LAMBDA rest :
         [fields |-> <<IF w[1] = 0 THEN 0
                       ELSE FromBytesBig(Slice(data, data_idx, data_idx + w[1]))>>
                     \o rest.fields,
          data_idx |-> rest.data_idx])

\* the sum of a list of integers
RECURSIVE Sum(_)
Sum(w) == IF w = <<>> THEN 0 ELSE w[1] + Sum(Tail(w))

\* the entries i, i + 1, ... of one subsection of an xref stream
RECURSIVE StreamEntries(_, _, _, _, _, _, _)
StreamEntries(data, w, start, i, count, data_idx, xref) ==
    IF i >= count \/ data_idx + Sum(w) > Len(data)
    THEN [xref |-> xref, data_idx |-> data_idx, exc |-> ""]
    ELSE IF w = <<>> THEN [xref |-> xref, data_idx |-> data_idx, exc |-> "IndexError"]
    ELSE Let(EntryFields(data, w, data_idx), LAMBDA e :
         IF (IF w[1] > 0 THEN e.fields[1] ELSE 1) = 1 /\ (start + i) \notin DOMAIN xref
         THEN IF Len(e.fields) < 2
              THEN [xref |-> xref, data_idx |-> e.data_idx, exc |-> "IndexError"]
              ELSE StreamEntries(data, w, start, i + 1, count, e.data_idx,
                     DictSet(xref, start + i,
                             <<e.fields[2], IF Len(e.fields) > 2 THEN e.fields[3] ELSE 0>>))
         ELSE StreamEntries(data, w, start, i + 1, count, e.data_idx, xref))

\* the loop over the subsections of an xref stream
RECURSIVE StreamSubsections(_, _, _, _, _)
StreamSubsections(data, w, subsections, data_idx, xref) ==
    IF subsections = <<>> THEN [xref |-> xref, exc |-> ""]
    ELSE Let(StreamEntries(data, w, subsections[1][1], 0, subsections[1][2],
                           data_idx, xref), LAMBDA r :
         IF r.exc # "" THEN [xref |-> r.xref, exc |-> r.exc]
         ELSE StreamSubsections(data, w, Tail(subsections), r.data_idx, r.xref))

\* [int(x.value if hasattr(x, "value") else x) for x in w]
WidthsOf(w) ==
    IF w.t = "None" THEN [w |-> <<1, 2, 1>>, exc |-> ""]
    ELSE IF w.t = "Array"
         THEN Let([i \in 1..Len(w.items) |-> IntOfValue(w.items[i])], LAMBDA ints :
              IF \E i \in 1..Len(ints) : ints[i].exc # ""
              THEN [w |-> <<>>,
                    exc |-> ints[CHOOSE i \in 1..Len(ints) :
                                    /\ ints[i].exc # ""
                                    /\ \A k \in 1..(i - 1) : ints[k].exc = ""].exc]
              ELSE [w |-> [i \in 1..Len(ints) |-> ints[i].v], exc |-> ""])
    ELSE IF IsDictLike(w) /\ DOMAIN w.d = {} THEN [w |-> <<>>, exc |-> ""]
    ELSE [w |-> <<>>, exc |-> "TypeError"]

\* [(int(index[i].value), int(index[i + 1].value)) for i in range(0, len(index), 2)]
RECURSIVE IndexPairs(_, _)
IndexPairs(items, i) ==
    IF i > Len(items) THEN [subs |-> <<>>, exc |-> ""]
    ELSE Let(IntOfValueAttr(items[i]), LAMBDA start :
         IF start.exc # "" THEN [subs |-> <<>>, exc |-> start.exc]
         ELSE IF i + 1 > Len(items) THEN [subs |-> <<>>, exc |-> "IndexError"]
         ELSE Let(IntOfValueAttr(items[i + 1]), LAMBDA count :
              IF count.exc # "" THEN [subs |-> <<>>, exc |-> count.exc]
              ELSE Let(IndexPairs(items, i + 2), LAMBDA rest :
                   [subs |-> <<<<start.v, count.v>>>> \o rest.subs, exc |-> rest.exc])))

SubsectionsOf(index, size) ==
    IF ~Truthy(index) THEN [subs |-> <<<<0, size>>>>, exc |-> ""]
    ELSE IF index.t = "Array" THEN IndexPairs(index.items, 1)
    ELSE IF IsDictLike(index) THEN [subs |-> <<>>, exc |-> "KeyError"]
    ELSE [subs |-> <<>>, exc |-> "TypeError"]

RECURSIVE _parse_xref(_, _, _, _)

\* the end of both branches: follow /Prev of the trailer just stored
FollowPrev(buf, st, seen) ==
    Let(DictGet(st.trailer, n_Prev), LAMBDA prev :
    IF ~Truthy(prev) THEN st
    ELSE Let(IntOfValue(prev), LAMBDA prev_offset :
         IF prev_offset.exc # ""
         THEN Building(st.xref, st.trailer, st.objects, prev_offset.exc)
         ELSE _parse_xref(buf, prev_offset.v, st, seen)))

\* _parse_xref_table(offset)
_parse_xref_table(buf, offset, st, seen) ==
    Let(SliceFrom(buf, offset), LAMBDA data :
    Let(TableLines(data, Find(data, <<10>>, 4) + 1, st.xref), LAMBDA lines :
    Let(TrailerMatch(SliceFrom(data, lines.idx - TrailerLookback)), LAMBDA trailer_data :
    IF trailer_data = <<>> THEN Building(lines.xref, st.trailer, st.objects, "")
    ELSE Let(_parse_object(trailer_data, 0), LAMBDA trailer :
         IF trailer.exc # "" THEN Building(lines.xref, st.trailer, st.objects, trailer.exc)
         ELSE IF ~Truthy(trailer.obj) THEN Building(lines.xref, trailer.obj, st.objects, "")
         ELSE FollowPrev(buf, Building(lines.xref, trailer.obj, st.objects, ""), seen)))))

\* _parse_xref_stream(offset)
_parse_xref_stream(buf, offset, st, seen) ==
    LET Entries(io, obj, data, w, size) ==
            Let(SubsectionsOf(DictGet(obj, n_Index), size.v), LAMBDA subs :
            IF subs.exc # "" THEN Building(st.xref, obj, io.objects, subs.exc)
            ELSE Let(StreamSubsections(data.out, w.w, subs.subs, 0, st.xref),
                     LAMBDA entries :
                 IF entries.exc # "" THEN Building(entries.xref, obj, io.objects, entries.exc)
                 ELSE FollowPrev(buf, Building(entries.xref, obj, io.objects, ""), seen)))
        Decoded(io, obj) ==
            Let(DecodeBytes(obj.d, obj.data), LAMBDA data :
            IF data.exc # "" THEN Building(st.xref, obj, io.objects, data.exc)
            ELSE Let(WidthsOf(DictGet(obj, n_W)), LAMBDA w :
                 IF w.exc # "" THEN Building(st.xref, obj, io.objects, w.exc)
                 ELSE Let(IF n_Size \in DOMAIN obj.d THEN IntOfValueAttr(obj.d[n_Size])
                          ELSE [v |-> 0, exc |-> ""], LAMBDA size :
                      IF size.exc # "" THEN Building(st.xref, obj, io.objects, size.exc)
                      ELSE Entries(io, obj, data, w, size))))
    IN Let(_parse_indirect_object(buf, st.xref, st.objects, offset, {}), LAMBDA io :
       IF io.exc # "" THEN Building(st.xref, st.trailer, io.objects, io.exc)
       ELSE IF io.obj.t # "Stream"
            THEN Building(st.xref, st.trailer, io.objects, "PdfReadError")
       ELSE Decoded(io, io.obj))

\* _parse_xref(offset).  seen holds the offsets of the sections on the call
\* stack: a /Prev that leads back to one of them recurses without end, which
\* the interpreter ends with RecursionError.
_parse_xref(buf, offset, st, seen) ==
    LET at == Clamp(offset, Len(buf)) IN
    IF at \in seen THEN Building(st.xref, st.trailer, st.objects, "RecursionError")
    ELSE IF StartsAt(SliceFrom(buf, offset), 0, kw_xref)
         THEN _parse_xref_table(buf, offset, st, seen \cup {at})
    ELSE _parse_xref_stream(buf, offset, st, seen \cup {at})

\* ------------------------------------------------------------ construction

\* re.search(rb"startxref\s+(\d+)", tail): int(group(1)), or -1 for no match
StartxrefMatch(tail) ==
    LET Num(p) == SkipWhile(tail, p + 9, ReSpace)
        Hit(p) == /\ StartsAt(tail, p, kw_startxref)
                  /\ Let(Num(p), LAMBDA q : q > p + 9 /\ At(tail, q) \in DigitBytes)
    IN Let(FirstIdx({p \in 0..(Len(tail) - 1) : Hit(p)}), LAMBDA p :
       IF p = -1 THEN -1
       ELSE Let(Num(p), LAMBDA q : DecVal(Slice(tail, q, SkipWhile(tail, q, DigitBytes)))))

\* the window of a search that is not limited to the tail: self._data
WholeBuffer(buf) == buf

\* the window of the buffer _parse searches: self._data[-1024:]
StartxrefWindow(buf) == SliceFrom(buf, 0 - TailWindow)

\* no reader: what a failed construction leaves
NoReader == [t |-> "None"]

\* _parse(): the xref map, the trailer and the cache it leaves
_parse(buf) ==
    Let(StartxrefMatch(StartxrefWindow(buf)), LAMBDA startxref :
    IF startxref = -1 THEN Building(EmptyDict, None, EmptyDict, "PdfReadError")
    ELSE _parse_xref(buf, startxref, Building(EmptyDict, None, EmptyDict, ""), {}))

\* PdfReader(buf) for a bytes object buf and no password: the reader, or the
\* exception that construction raised
PdfReader(buf) ==
    IF buf = <<>> THEN [reader |-> NoReader, exc |-> "EmptyFileError"]
    ELSE Let(_parse(buf), LAMBDA st :
         IF st.exc # "" THEN [reader |-> NoReader, exc |-> st.exc]
         ELSE [reader |-> [t |-> "Reader",
                           data |-> buf,
                           xref |-> st.xref,
                           objects |-> st.objects,
                           trailer |-> st.trailer,
                           is_encrypted |-> Truthy(st.trailer)
                                            /\ Truthy(DictGet(st.trailer, n_Encrypt)),
                           pages |-> None],
               exc |-> ""])

\* --------------------------------------------------------- page tree walker

n_Root == <<47, 82, 111, 111, 116>>                                  \* "/Root"
n_Pages == <<47, 80, 97, 103, 101, 115>>                             \* "/Pages"
n_Page == <<47, 80, 97, 103, 101>>                                   \* "/Page"
n_Type == <<47, 84, 121, 112, 101>>                                  \* "/Type"
n_Kids == <<47, 75, 105, 100, 115>>                                  \* "/Kids"
n_Parent == <<47, 80, 97, 114, 101, 110, 116>>                       \* "/Parent"
n_MediaBox == <<47, 77, 101, 100, 105, 97, 66, 111, 120>>            \* "/MediaBox"
n_Contents == <<47, 67, 111, 110, 116, 101, 110, 116, 115>>          \* "/Contents"

\* what a step of the walk returns: the page list, the cache, the object
\* numbers parsed, the exception
Walked(pages, objects, parsed, exc) ==
    [pages |-> pages, objects |-> objects, parsed |-> parsed, exc |-> exc]

RECURSIVE _collect_pages(_, _, _, _, _, _)
RECURSIVE CollectKids(_, _, _, _, _, _)

\* for kid in kids: self._collect_pages(kid)
CollectKids(buf, xref, objects, pages, kids, active) ==
    IF kids = <<>> THEN Walked(pages, objects, <<>>, "")
    ELSE Let(_collect_pages(buf, xref, objects, pages, kids[1], active), LAMBDA first :
         IF first.exc # "" THEN first
         ELSE Let(CollectKids(buf, xref, first.objects, first.pages, Tail(kids), active),
                  LAMBDA rest :
              Walked(rest.pages, rest.objects, first.parsed \o rest.parsed, rest.exc)))

\* _collect_pages(node) with page list pages.  active holds the object numbers
\* of the references the descent is inside of: meeting one of them again
\* recurses without end, which the interpreter ends with RecursionError.
_collect_pages(buf, xref, objects, pages, node0, active) ==
    LET Resolved(o, objs) ==
            IF o.t = "Ref" THEN get_object(buf, xref, objs, o, {})
            ELSE [ret |-> o, objects |-> objs, parsed |-> <<>>, exc |-> ""]
        Kids(got, kidsGot, kids) ==
            IF kidsGot.exc # ""
            THEN Walked(pages, kidsGot.objects, got.parsed \o kidsGot.parsed, kidsGot.exc)
            ELSE IF kids.t = "Array" \/ IsDictLike(kids)
            THEN Let(CollectKids(buf, xref, kidsGot.objects, pages,
                                 IF kids.t = "Array" THEN kids.items ELSE KeysOf(kids.d),
                                 IF node0.t = "Ref" THEN active \cup {node0.num} ELSE active),
                     LAMBDA sub :
                 Walked(sub.pages, sub.objects,
                        got.parsed \o kidsGot.parsed \o sub.parsed, sub.exc))
            ELSE Walked(pages, kidsGot.objects, got.parsed \o kidsGot.parsed, "TypeError")
        Node(got, node, node_type) ==
            IF got.exc # "" THEN Walked(pages, got.objects, got.parsed, got.exc)
            ELSE IF ~Truthy(node) \/ ~IsDictLike(node)
                 THEN Walked(pages, got.objects, got.parsed, "")
            ELSE IF node_type = NameObject(n_Page)
                 THEN Walked(Append(pages, PageObject(node.d)), got.objects, got.parsed, "")
            ELSE IF node_type = NameObject(n_Pages)
                 THEN Let(Resolved(IF n_Kids \in DOMAIN node.d THEN node.d[n_Kids]
                                   ELSE ArrayObject(<<>>), got.objects), LAMBDA kidsGot :
                      Kids(got, kidsGot, kidsGot.ret))
            ELSE Walked(pages, got.objects, got.parsed, "")
    IN IF node0.t = "Ref" /\ node0.num \in active
       THEN Walked(pages, objects, <<>>, "RecursionError")
       ELSE Let(Resolved(node0, objects), LAMBDA got :
            Node(got, got.ret, DictGet(got.ret, n_Type)))

\* the pages property of a reader whose page list is not built yet: the page
\* list it leaves in self._pages, the cache, the exception
PagesOf(r) ==
    LET Walk(root, pages) ==
            IF pages.exc # ""
            THEN Walked(<<>>, pages.objects, root.parsed \o pages.parsed, pages.exc)
            ELSE IF ~Truthy(pages.ret)
            THEN Walked(<<>>, pages.objects, root.parsed \o pages.parsed, "")
            ELSE Let(_collect_pages(r.data, r.xref, pages.objects, <<>>, pages.ret, {}),
                     LAMBDA walk :
                 Walked(walk.pages, walk.objects,
                        root.parsed \o pages.parsed \o walk.parsed, walk.exc))
        Root(root) ==
            IF root.exc # "" THEN Walked(<<>>, root.objects, root.parsed, root.exc)
            ELSE IF ~Truthy(root.ret) THEN Walked(<<>>, root.objects, root.parsed, "")
            ELSE IF ~IsDictLike(root.ret)
                 THEN Walked(<<>>, root.objects, root.parsed, "AttributeError")
            ELSE Let(DictGet(root.ret, n_Pages), LAMBDA pages_ref :
                 IF ~Truthy(pages_ref) THEN Walked(<<>>, root.objects, root.parsed, "")
                 ELSE Walk(root, get_object(r.data, r.xref, root.objects, pages_ref, {})))
    IN IF ~Truthy(r.trailer) THEN Walked(<<>>, r.objects, <<>>, "")
       ELSE Let(DictGet(r.trailer, n_Root), LAMBDA root_ref :
            IF ~Truthy(root_ref) THEN Walked(<<>>, r.objects, <<>>, "")
            ELSE Root(get_object(r.data, r.xref, r.objects, root_ref, {})))

\* RectangleObject(arr): the first four entries of a list, four zeros for an
\* empty one
RectangleObject(arr) ==
    IF ~Truthy(arr)
    THEN [rect |-> <<IntObject(0), IntObject(0), IntObject(0), IntObject(0)>>, exc |-> ""]
    ELSE IF arr.t = "Array" THEN [rect |-> Slice(arr.items, 0, 4), exc |-> ""]
    ELSE [rect |-> <<>>, exc |-> "TypeError"]

\* RectangleObject([0, 0, 612, 792]), US Letter
USLetter == <<IntObject(0), IntObject(0), IntObject(612), IntObject(792)>>

\* the mediabox property of a page of the reader with buffer buf, xref map
\* xref and cache objects: the rectangle, the cache afterwards, the exception
mediabox(buf, xref, objects, page) ==
    LET Result(r, objs, parsed, exc) ==
            [rect |-> r, objects |-> objs, parsed |-> parsed, exc |-> exc]
        Resolved(o, objs) ==
            IF o.t = "Ref" THEN get_object(buf, xref, objs, o, {})
            ELSE [ret |-> o, objects |-> objs, parsed |-> <<>>, exc |-> ""]
        Box(pg, box0) ==
            IF box0.t = "None" THEN Result(USLetter, pg.objects, pg.parsed, "")
            ELSE Let(Resolved(box0, pg.objects), LAMBDA bg :
                 IF bg.exc # "" THEN Result(<<>>, bg.objects, pg.parsed \o bg.parsed, bg.exc)
                 ELSE Let(RectangleObject(bg.ret), LAMBDA rect :
                      Result(rect.rect, bg.objects, pg.parsed \o bg.parsed, rect.exc)))
        Inherited(pg, parent) ==
            IF pg.exc # "" THEN Result(<<>>, pg.objects, pg.parsed, pg.exc)
            ELSE IF Truthy(parent) /\ ~IsDictLike(parent)
                 THEN Result(<<>>, pg.objects, pg.parsed, "AttributeError")
            ELSE Box(pg, IF Truthy(parent) THEN DictGet(parent, n_MediaBox) ELSE None)
    IN Let(DictGet(page, n_MediaBox), LAMBDA own :
       IF own.t # "None"
       THEN Box([ret |-> None, objects |-> objects, parsed |-> <<>>, exc |-> ""], own)
       ELSE Let(Resolved(DictGet(page, n_Parent), objects), LAMBDA pg :
            Inherited(pg, pg.ret)))

\* ------------------------------------------------------------ text extractor

kw_Tj == <<84, 106>>                                                 \* "Tj"
kw_TJ == <<84, 74>>                                                  \* "TJ"

\* \s of a text pattern of re: the Unicode whitespace
StrSpace == (9..13) \cup (28..32) \cup {133, 160, 5760} \cup (8192..8202)
            \cup {8232, 8233, 8239, 8287, 12288}

\* the concatenation of parts[lo..hi], halving the range
RECURSIVE ConcatRange(_, _, _)
ConcatRange(parts, lo, hi) ==
    IF lo > hi THEN <<>>
    ELSE IF lo = hi THEN parts[lo]
    ELSE LET mid == (lo + hi) \div 2
         IN ConcatRange(parts, lo, mid) \o ConcatRange(parts, mid + 1, hi)

\* the concatenation of a list of strings
Concat(parts) == ConcatRange(parts, 1, Len(parts))

\* the UTF-8 character that starts at i: its length (0 if none does) and code point
Utf8CharAt(bs, i) ==
    LET b0 == At(bs, i)
        b1 == At(bs, i + 1)
        b2 == At(bs, i + 2)
        b3 == At(bs, i + 3)
        Cont(b) == b \in 128..191
        Char(n, cp) == [len |-> n, cp |-> cp]
    IN IF b0 \in 0..127 THEN Char(1, b0)
       ELSE IF b0 \in 194..223 /\ Cont(b1) THEN Char(2, (b0 - 192) * 64 + (b1 - 128))
       ELSE IF b0 \in 224..239 /\ Cont(b1) /\ Cont(b2)
               /\ (b0 = 224 => b1 >= 160) /\ (b0 = 237 => b1 <= 159)
            THEN Char(3, (b0 - 224) * 4096 + (b1 - 128) * 64 + (b2 - 128))
       ELSE IF b0 \in 240..244 /\ Cont(b1) /\ Cont(b2) /\ Cont(b3)
               /\ (b0 = 240 => b1 >= 144) /\ (b0 = 244 => b1 <= 143)
            THEN Char(4, (b0 - 240) * 262144 + (b1 - 128) * 4096 + (b2 - 128) * 64
                         + (b3 - 128))
       ELSE Char(0, 0)

\* content.decode("utf-8"): the code points, or ok = FALSE for UnicodeDecodeError.
\* A byte outside 128..191 must start a character; a byte inside must lie within
\* the character that starts one to three bytes before it.
Utf8Decode(bs, i) ==
    LET Cont(k) == At(bs, k) \in 128..191
        Ok == \A k \in i..(Len(bs) - 1) :
                 IF Cont(k)
                 THEN \E j \in 1..3 : k - j >= i /\ Utf8CharAt(bs, k - j).len > j
                 ELSE Utf8CharAt(bs, k).len > 0
        parts == [k \in 1..(Len(bs) - i) |->
                     IF Cont(i + k - 1) THEN <<>> ELSE <<Utf8CharAt(bs, i + k - 1).cp>>]
    IN IF i >= Len(bs) THEN [ok |-> TRUE, text |-> <<>>]
       ELSE IF Ok THEN [ok |-> TRUE, text |-> Concat(parts)]
       ELSE [ok |-> FALSE, text |-> <<>>]

\* bs.decode("utf-16-be"): the code points, or ok = FALSE for UnicodeDecodeError.
\* A high surrogate must be followed by a low one, a low one preceded by a high one.
Utf16Decode(bs, i) ==
    LET n == (Len(bs) - i) \div 2
        Unit(k) == 256 * At(bs, i + 2 * k) + At(bs, i + 2 * k + 1)
        High(k) == k \in 0..(n - 1) /\ Unit(k) \in 55296..56319
        Low(k) == k \in 0..(n - 1) /\ Unit(k) \in 56320..57343
        Ok == /\ (Len(bs) - i) % 2 = 0
              /\ \A k \in 0..(n - 1) : /\ High(k) => Low(k + 1)
                                       /\ Low(k) => High(k - 1)
        parts == [k \in 1..n |->
                     IF Low(k - 1) THEN <<>>
                     ELSE IF High(k - 1)
                     THEN <<65536 + (Unit(k - 1) - 55296) * 1024 + (Unit(k) - 56320)>>
                     ELSE <<Unit(k - 1)>>]
    IN IF i >= Len(bs) THEN [ok |-> TRUE, text |-> <<>>]
       ELSE IF Ok THEN [ok |-> TRUE, text |-> Concat(parts)]
       ELSE [ok |-> FALSE, text |-> <<>>]

\* text.replace(pat, rep)
RECURSIVE Replace(_, _, _)
Replace(text, pat, rep) ==
    Let(Find(text, pat, 0), LAMBDA p :
    IF p = -1 THEN text
    ELSE Slice(text, 0, p) \o rep \o Replace(SliceFrom(text, p + Len(pat)), pat, rep))

\* the unescaping of a literal operand of Tj
UnescapeTj(text) ==
    Replace(Replace(Replace(Replace(Replace(Replace(text,
        <<92, 40>>, <<40>>), <<92, 41>>, <<41>>), <<92, 110>>, <<10>>),
        <<92, 114>>, <<13>>), <<92, 116>>, <<9>>), <<92, 92>>, <<92>>)

\* the unescaping of a literal string inside a TJ array
UnescapeTJ(text) == Replace(Replace(text, <<92, 40>>, <<40>>), <<92, 41>>, <<41>>)

\* one match of a pattern: where it ends and the group it captured
NoMatch == [end |-> -1, group |-> <<>>]

\* r"\(([^)]*)\)\s*Tj" matched at p
LiteralTjAt(text, p) ==
    Let(Find(text, <<41>>, p + 1), LAMBDA close :
    Let(SkipWhile(text, close + 1, StrSpace), LAMBDA op :
    IF At(text, p) = 40 /\ close # -1 /\ StartsAt(text, op, kw_Tj)
    THEN [end |-> op + 2, group |-> Slice(text, p + 1, close)]
    ELSE NoMatch))

\* r"<([0-9A-Fa-f]+)>\s*Tj" matched at p
HexTjAt(text, p) ==
    Let(SkipWhile(text, p + 1, {c \in 0..127 : HexVal(c) >= 0}), LAMBDA close :
    Let(SkipWhile(text, close + 1, StrSpace), LAMBDA op :
    IF At(text, p) = 60 /\ close > p + 1 /\ At(text, close) = 62
       /\ StartsAt(text, op, kw_Tj)
    THEN [end |-> op + 2, group |-> Slice(text, p + 1, close)]
    ELSE NoMatch))

\* r"\[((?:[^]]+))\]\s*TJ" matched at p
ArrayTJAt(text, p) ==
    Let(Find(text, <<93>>, p + 1), LAMBDA close :
    Let(SkipWhile(text, close + 1, StrSpace), LAMBDA op :
    IF At(text, p) = 91 /\ close > p + 1 /\ StartsAt(text, op, kw_TJ)
    THEN [end |-> op + 2, group |-> Slice(text, p + 1, close)]
    ELSE NoMatch))

\* r"\(([^)]*)\)" matched at p
LiteralAt(text, p) ==
    Let(Find(text, <<41>>, p + 1), LAMBDA close :
    IF At(text, p) = 40 /\ close # -1
    THEN [end |-> close + 1, group |-> Slice(text, p + 1, close)]
    ELSE NoMatch)

\* the match of one of the four patterns at p
MatchAt(pattern, text, p) ==
    CASE pattern = "literal Tj" -> LiteralTjAt(text, p)
      [] pattern = "hex Tj" -> HexTjAt(text, p)
      [] pattern = "array TJ" -> ArrayTJAt(text, p)
      [] pattern = "literal" -> LiteralAt(text, p)

\* re.finditer(pattern, text): the groups of the matches from pos on, left to
\* right, none overlapping
RECURSIVE FindIter(_, _, _)
FindIter(text, pos, pattern) ==
    Let(FirstIdx({i \in pos..(Len(text) - 1) : MatchAt(pattern, text, i).end # -1}),
        LAMBDA p :
    IF p = -1 THEN <<>>
    ELSE Let(MatchAt(pattern, text, p), LAMBDA m :
         <<m.group>> \o FindIter(text, m.end, pattern)))

\* sep.join(parts)
RECURSIVE Join(_, _)
Join(parts, sep) ==
    IF parts = <<>> THEN <<>>
    ELSE IF Len(parts) = 1 THEN parts[1]
    ELSE parts[1] \o sep \o Join(Tail(parts), sep)

\* the text of the hexadecimal operands: the ones that decode
HexTexts(groups) ==
    LET Decoded(g) ==
            IF Len(g) % 2 = 1 THEN <<>>
            ELSE Let(Utf16Decode(FromHex(g, 0), 0), LAMBDA d :
                 IF d.ok THEN d.text ELSE <<>>)
    IN Concat([i \in 1..Len(groups) |-> Decoded(groups[i])])

\* the text of the TJ operands: the literal strings inside each array
ArrayTexts(groups) ==
    LET Text(g) ==
            Let(FindIter(g, 0, "literal"), LAMBDA inner :
            Concat([j \in 1..Len(inner) |-> UnescapeTJ(inner[j])]))
    IN Concat([i \in 1..Len(groups) |-> Text(groups[i])])

\* the text extract_text builds from the content bytes
TextOfContent(content) ==
    LET Texts(text) ==
            Let(FindIter(text, 0, "literal Tj"), LAMBDA lits :
            Concat([i \in 1..Len(lits) |-> UnescapeTj(lits[i])])
            \o HexTexts(FindIter(text, 0, "hex Tj"))
            \o ArrayTexts(FindIter(text, 0, "array TJ")))
    IN IF content = <<>> THEN <<>>
       ELSE Let(Utf8Decode(content, 0), LAMBDA utf8 :
            Texts(IF utf8.ok THEN utf8.text ELSE content))

\* the loop of _get_content_stream over the items of a /Contents array
RECURSIVE ContentItems(_, _, _, _)
ContentItems(buf, xref, objects, items) ==
    LET Result(data, objs, parsed, exc) ==
            [data |-> data, objects |-> objs, parsed |-> parsed, exc |-> exc]
        Item(got, dec) ==
            IF got.exc # "" THEN Result(<<>>, got.objects, got.parsed, got.exc)
            ELSE IF dec.exc # "" THEN Result(<<>>, got.objects, got.parsed, dec.exc)
            ELSE Let(ContentItems(buf, xref, got.objects, Tail(items)), LAMBDA rest :
                 Result(dec.out \o rest.data, rest.objects, got.parsed \o rest.parsed,
                        rest.exc))
    IN IF items = <<>> THEN Result(<<>>, objects, <<>>, "")
       ELSE Let(IF items[1].t = "Ref" THEN get_object(buf, xref, objects, items[1], {})
                ELSE [ret |-> items[1], objects |-> objects, parsed |-> <<>>, exc |-> ""],
                LAMBDA got :
            Item(got, IF got.exc = "" /\ got.ret.t = "Stream"
                      THEN Let(DecodeBytes(got.ret.d, got.ret.data), LAMBDA dec :
                           [out |-> <<dec.out>>, exc |-> dec.exc])
                      ELSE [out |-> <<>>, exc |-> ""]))

\* _get_content_stream() of a page of the reader
_get_content_stream(buf, xref, objects, page) ==
    LET Result(data, objs, parsed, exc) ==
            [data |-> data, objects |-> objs, parsed |-> parsed, exc |-> exc]
        Contents(got, contents) ==
            IF got.exc # "" THEN Result(<<>>, got.objects, got.parsed, got.exc)
            ELSE IF contents.t = "Stream"
                 THEN Let(DecodeBytes(contents.d, contents.data), LAMBDA dec :
                      Result(dec.out, got.objects, got.parsed, dec.exc))
            ELSE IF contents.t = "Array"
                 THEN Let(ContentItems(buf, xref, got.objects, contents.items), LAMBDA items :
                      Result(Join(items.data, <<10>>), items.objects,
                             got.parsed \o items.parsed, items.exc))
            ELSE Result(<<>>, got.objects, got.parsed, "")
    IN Let(DictGet(page, n_Contents), LAMBDA contents0 :
       Let(IF contents0.t = "Ref" THEN get_object(buf, xref, objects, contents0, {})
           ELSE [ret |-> contents0, objects |-> objects, parsed |-> <<>>, exc |-> ""],
           LAMBDA got :
       Contents(got, got.ret)))

\* extract_text() of a page of the reader: the text, the cache afterwards
extract_text(buf, xref, objects, page) ==
    Let(_get_content_stream(buf, xref, objects, page), LAMBDA c :
    [text |-> IF c.exc # "" THEN <<>> ELSE TextOfContent(c.data),
     objects |-> c.objects, parsed |-> c.parsed, exc |-> c.exc])

\* ---------------------------------------------------------------- documents
\* The byte buffers the readers below are constructed from, laid out as a
\* PDF writer lays them out: a header, the objects, the cross-reference
\* section with the offsets the objects ended up at, the startxref line.

\* " 0 obj\n"
t_obj == <<32, 48, 32, 111, 98, 106, 10>>

\* "\nendobj\n"
t_endobj == <<10, 101, 110, 100, 111, 98, 106, 10>>

\* " >>\nstream\n"
t_dict_stream == <<32, 62, 62, 10, 115, 116, 114, 101, 97, 109, 10>>

\* "\nendstream\nendobj\n"
t_endstream_endobj ==
    <<10, 101, 110, 100, 115, 116, 114, 101, 97, 109, 10, 101, 110, 100, 111, 98, 106, 10>>

\* "xref\n0 "
t_xref_0 == <<120, 114, 101, 102, 10, 48, 32>>

\* " 00000 n \n"
t_in_use == <<32, 48, 48, 48, 48, 48, 32, 110, 32, 10>>

\* "0000000000 65535 f \n"
t_free == <<48, 48, 48, 48, 48, 48, 48, 48, 48, 48, 32, 54, 53, 53, 51, 53, 32, 102, 32, 10>>

\* "trailer\n<< /Size "
t_trailer_size == <<116, 114, 97, 105, 108, 101, 114, 10, 60, 60, 32, 47, 83, 105, 122, 101, 32>>

\* " /Root 1 0 R "
t_root == <<32, 47, 82, 111, 111, 116, 32, 49, 32, 48, 32, 82, 32>>

\* "/Prev "
t_prev == <<47, 80, 114, 101, 118, 32>>

\* ">>\nstartxref\n"
t_startxref == <<62, 62, 10, 115, 116, 97, 114, 116, 120, 114, 101, 102, 10>>

\* "\n%%EOF\n"
t_eof == <<10, 37, 37, 69, 79, 70, 10>>

\* "/Type /XRef /Size "
t_xs_size == <<47, 84, 121, 112, 101, 32, 47, 88, 82, 101, 102, 32, 47, 83, 105, 122, 101, 32>>

\* " /W [1 2 1] /Index ["
t_xs_w_index ==
    <<32, 47, 87, 32, 91, 49, 32, 50, 32, 49, 93, 32, 47, 73, 110, 100, 101, 120, 32, 91>>

\* "] /Root 1 0 R /Length "
t_xs_root_length ==
    <<93, 32, 47, 82, 111, 111, 116, 32, 49, 32, 48, 32, 82, 32, 47, 76, 101, 110, 103, 116,
    104, 32>>

\* " /Prev "
t_xs_prev == <<32, 47, 80, 114, 101, 118, 32>>

\* "startxref\n"
t_xs_startxref == <<115, 116, 97, 114, 116, 120, 114, 101, 102, 10>>


\* str(n) for n >= 0
RECURSIVE Dec(_)
Dec(n) == IF n < 10 THEN <<48 + n>> ELSE Dec(n \div 10) \o <<48 + (n % 10)>>

\* "%010d" % n
Pad10(n) == [i \in 1..(10 - Len(Dec(n))) |-> 48] \o Dec(n)

\* n written in len bytes, most significant first
RECURSIVE ToBytesBig(_, _)
ToBytesBig(n, len) ==
    IF len = 0 THEN <<>> ELSE ToBytesBig(n \div 256, len - 1) \o <<n % 256>>

\* the indirect object n with the value body
Obj(n, body) == [n |-> n, bytes |-> Dec(n) \o t_obj \o body \o t_endobj]

\* the indirect object n that is a stream with the entries dict_body and the bytes data
StreamObj(n, dict_body, data) ==
    [n |-> n,
     bytes |-> Dec(n) \o t_obj \o <<60, 60, 32>> \o dict_body \o t_dict_stream
               \o data \o t_endstream_endobj]

\* the bytes of the objects objs, one after the other
BodyOf(objs) == Concat([k \in 1..Len(objs) |-> objs[k].bytes])

\* where the k-th of the objects objs starts when they are appended to base
OffsetOf(base, objs, k) == Len(base) + Len(BodyOf(SubSeq(objs, 1, k - 1)))

\* where the cross-reference section starts when objs are appended to base
XrefOffset(base, objs) == Len(base) + Len(BodyOf(objs))

\* one more than the largest object number of objs
SizeOf(objs) == 1 + CHOOSE m \in {objs[k].n : k \in 1..Len(objs)} :
                        \A k \in 1..Len(objs) : objs[k].n <= m

\* base with one more section appended: the objects objs, a classic
\* cross-reference table of them, a trailer that names the section at prev as
\* the previous one (none for -1) and holds the entries extra, the startxref line
Classic(base, objs, prev, extra) ==
    LET Entry(i) == IF \E k \in 1..Len(objs) : objs[k].n = i
                    THEN Pad10(OffsetOf(base, objs,
                                        CHOOSE k \in 1..Len(objs) : objs[k].n = i))
                         \o t_in_use
                    ELSE t_free
    IN base \o BodyOf(objs)
       \o t_xref_0 \o Dec(SizeOf(objs)) \o <<10>>
       \o Concat([i \in 1..SizeOf(objs) |-> Entry(i - 1)])
       \o t_trailer_size \o Dec(SizeOf(objs)) \o t_root
       \o (IF prev = -1 THEN <<>> ELSE t_prev \o Dec(prev) \o <<32>>) \o extra
       \o t_startxref \o Dec(XrefOffset(base, objs)) \o t_eof

\* base with one more section appended: the objects objs and the
\* cross-reference stream n_xs of them and of itself, one /Index pair and one
\* entry of widths 1 2 1 for each in the order of their offsets
XrefStream(base, objs, n_xs, prev) ==
    LET Num(k) == IF k <= Len(objs) THEN objs[k].n ELSE n_xs
        Off(k) == IF k <= Len(objs) THEN OffsetOf(base, objs, k)
                  ELSE XrefOffset(base, objs)
        count == Len(objs) + 1
        index == Join([k \in 1..count |-> Dec(Num(k)) \o <<32, 49>>], <<32>>)
        data == Concat([k \in 1..count |-> <<1>> \o ToBytesBig(Off(k), 2) \o <<0>>])
        size == IF n_xs >= SizeOf(objs) THEN n_xs + 1 ELSE SizeOf(objs)
        dict == t_xs_size \o Dec(size) \o t_xs_w_index \o index \o t_xs_root_length
                \o Dec(Len(data))
                \o (IF prev = -1 THEN <<>> ELSE t_xs_prev \o Dec(prev))
    IN base \o BodyOf(objs) \o StreamObj(n_xs, dict, data).bytes
       \o t_xs_startxref \o Dec(XrefOffset(base, objs)) \o t_eof

\* "%PDF-1.4\n"
Header == <<37, 80, 68, 70, 45, 49, 46, 52, 10>>

\* "<< /Type /Catalog /Pages 2 0 R >>"
b_Catalog ==
    <<60, 60, 32, 47, 84, 121, 112, 101, 32, 47, 67, 97, 116, 97, 108, 111, 103, 32, 47, 80, 97,
    103, 101, 115, 32, 50, 32, 48, 32, 82, 32, 62, 62>>

\* "<< /Type /Pages /Kids [3 0 R] /Count 1 >>"
b_PagesRef ==
    <<60, 60, 32, 47, 84, 121, 112, 101, 32, 47, 80, 97, 103, 101, 115, 32, 47, 75, 105, 100,
    115, 32, 91, 51, 32, 48, 32, 82, 93, 32, 47, 67, 111, 117, 110, 116, 32, 49, 32, 62, 62>>

\* "<< /Type /Page /Parent 2 0 R /Contents 4 0 R >>"
b_Page ==
    <<60, 60, 32, 47, 84, 121, 112, 101, 32, 47, 80, 97, 103, 101, 32, 47, 80, 97, 114, 101,
    110, 116, 32, 50, 32, 48, 32, 82, 32, 47, 67, 111, 110, 116, 101, 110, 116, 115, 32, 52, 32,
    48, 32, 82, 32, 62, 62>>

\* "/Length 10"
b_Length10 == <<47, 76, 101, 110, 103, 116, 104, 32, 49, 48>>

\* "(Hello) Tj"
b_HelloTj == <<40, 72, 101, 108, 108, 111, 41, 32, 84, 106>>

\* "<< /Type /Catalog /Pages 2 0 R /V 2 >>"
b_CatalogV2 ==
    <<60, 60, 32, 47, 84, 121, 112, 101, 32, 47, 67, 97, 116, 97, 108, 111, 103, 32, 47, 80, 97,
    103, 101, 115, 32, 50, 32, 48, 32, 82, 32, 47, 86, 32, 50, 32, 62, 62>>

\* "(new)"
b_New == <<40, 110, 101, 119, 41>>

\* "<< /V 3 >>"
b_V3 == <<60, 60, 32, 47, 86, 32, 51, 32, 62, 62>>

\* "<< /V 4 >>"
b_V4 == <<60, 60, 32, 47, 86, 32, 52, 32, 62, 62>>

\* "<< /V 5 >>"
b_V5 == <<60, 60, 32, 47, 86, 32, 53, 32, 62, 62>>

\* "<< /Type /Pages /Kids [3 0 R 2 0 R] /Count 1 >>"
b_PagesCycle ==
    <<60, 60, 32, 47, 84, 121, 112, 101, 32, 47, 80, 97, 103, 101, 115, 32, 47, 75, 105, 100,
    115, 32, 91, 51, 32, 48, 32, 82, 32, 50, 32, 48, 32, 82, 93, 32, 47, 67, 111, 117, 110, 116,
    32, 49, 32, 62, 62>>

\* "<< /Type /Pages /MediaBox [0 0 200 300] /Count 2 /Kids [<< /Type /Page /Parent 2 0 R /Contents 3 0 R >> << /Type /Page /MediaBox [0 0 10 20] >>] >>"
b_PagesBox ==
    <<60, 60, 32, 47, 84, 121, 112, 101, 32, 47, 80, 97, 103, 101, 115, 32, 47, 77, 101, 100,
    105, 97, 66, 111, 120, 32, 91, 48, 32, 48, 32, 50, 48, 48, 32, 51, 48, 48, 93, 32, 47, 67,
    111, 117, 110, 116, 32, 50, 32, 47, 75, 105, 100, 115, 32, 91, 60, 60, 32, 47, 84, 121, 112,
    101, 32, 47, 80, 97, 103, 101, 32, 47, 80, 97, 114, 101, 110, 116, 32, 50, 32, 48, 32, 82,
    32, 47, 67, 111, 110, 116, 101, 110, 116, 115, 32, 51, 32, 48, 32, 82, 32, 62, 62, 32, 60,
    60, 32, 47, 84, 121, 112, 101, 32, 47, 80, 97, 103, 101, 32, 47, 77, 101, 100, 105, 97, 66,
    111, 120, 32, 91, 48, 32, 48, 32, 49, 48, 32, 50, 48, 93, 32, 62, 62, 93, 32, 62, 62>>

\* "<< /Type /Pages /Count 2 /Kids [<< /Type /Page /Parent 2 0 R >> << /Type /Page /Contents 3 0 R >>] >>"
b_PagesNoBox ==
    <<60, 60, 32, 47, 84, 121, 112, 101, 32, 47, 80, 97, 103, 101, 115, 32, 47, 67, 111, 117,
    110, 116, 32, 50, 32, 47, 75, 105, 100, 115, 32, 91, 60, 60, 32, 47, 84, 121, 112, 101, 32,
    47, 80, 97, 103, 101, 32, 47, 80, 97, 114, 101, 110, 116, 32, 50, 32, 48, 32, 82, 32, 62,
    62, 32, 60, 60, 32, 47, 84, 121, 112, 101, 32, 47, 80, 97, 103, 101, 32, 47, 67, 111, 110,
    116, 101, 110, 116, 115, 32, 51, 32, 48, 32, 82, 32, 62, 62, 93, 32, 62, 62>>

\* "%PDF-1.4\nhello"
b_NoStart == <<37, 80, 68, 70, 45, 49, 46, 52, 10, 104, 101, 108, 108, 111>>

\* "%PDF-1.4\nhello\nstartxref\n3\n%%EOF"
b_GarbageTarget ==
    <<37, 80, 68, 70, 45, 49, 46, 52, 10, 104, 101, 108, 108, 111, 10, 115, 116, 97, 114, 116,
    120, 114, 101, 102, 10, 51, 10, 37, 37, 69, 79, 70>>

\* "<< /A 1 >>"
b_A1 == <<60, 60, 32, 47, 65, 32, 49, 32, 62, 62>>

\* "(\8)": a literal string with the escape \8
b_BadEscape == <<40, 92, 56, 41>>


\* the one-page document: catalog 1, page tree 2 with the page 3 in /Kids as
\* 3 0 R, content stream 4, one classic table
HelloObjects ==
    <<Obj(1, b_Catalog), Obj(2, b_PagesRef), Obj(3, b_Page),
      StreamObj(4, b_Length10, b_HelloTj)>>

HelloDoc == Classic(Header, HelloObjects, -1, <<>>)

\* HelloDoc updated incrementally: a second section with a new object 1 and
\* an object 5, its table over the first table
UpdateObjects == <<Obj(1, b_CatalogV2), Obj(5, b_New)>>

UpdatedDoc == Classic(HelloDoc, UpdateObjects, XrefOffset(Header, HelloObjects), <<>>)

\* HelloDoc updated with a section that has a cross-reference stream, object 7
StreamOverTableDoc ==
    XrefStream(HelloDoc, <<Obj(1, b_V3)>>, 7, XrefOffset(Header, HelloObjects))

\* that document updated again with a classic table
TableOverStreamDoc ==
    Classic(StreamOverTableDoc, <<Obj(1, b_V4)>>, XrefOffset(HelloDoc, <<Obj(1, b_V3)>>), <<>>)

\* HelloDoc with a cross-reference stream for everything, then updated with
\* another cross-reference stream
AllStreamDoc == XrefStream(Header, HelloObjects, 6, -1)

StreamOverStreamDoc ==
    XrefStream(AllStreamDoc, <<Obj(1, b_V5)>>, 7, XrefOffset(Header, HelloObjects))

\* the documents with an update, the number of the object they update and the
\* offsets of that object in the newest section and in the one before
UpdatedDocs == {UpdatedDoc, StreamOverTableDoc, TableOverStreamDoc, StreamOverStreamDoc}

UpdatedNumber == UpdateObjects[1].n

NewestOffset(doc) ==
    CASE doc = UpdatedDoc -> Len(HelloDoc)
      [] doc = StreamOverTableDoc -> Len(HelloDoc)
      [] doc = TableOverStreamDoc -> Len(StreamOverTableDoc)
      [] doc = StreamOverStreamDoc -> Len(AllStreamDoc)

\* a page tree whose /Kids names the page 3 and then the tree node itself
CycleDoc ==
    Classic(Header, <<Obj(1, b_Catalog), Obj(2, b_PagesCycle), Obj(3, b_Page),
                      StreamObj(4, b_Length10, b_HelloTj)>>, -1, <<>>)

\* a page tree with /MediaBox [0 0 200 300] whose pages are written inside
\* /Kids: one with /Parent and no /MediaBox, one with a /MediaBox of its own
ParentBoxDoc ==
    Classic(Header, <<Obj(1, b_Catalog), Obj(2, b_PagesBox),
                      StreamObj(3, b_Length10, b_HelloTj), Obj(4, b_New)>>, -1, <<>>)

\* a page tree with no /MediaBox anywhere: one page with /Parent, one without
NoBoxDoc ==
    Classic(Header, <<Obj(1, b_Catalog), Obj(2, b_PagesNoBox),
                      StreamObj(3, b_Length10, b_HelloTj), Obj(4, b_New)>>, -1, <<>>)

\* the one-page document with a literal string in place of the page: the
\* string holds the escape \8, which int(octal, 8) rejects
BadEscapeDoc ==
    Classic(Header, <<Obj(1, b_Catalog), Obj(2, b_PagesRef), Obj(3, b_BadEscape),
                      Obj(4, b_New)>>, -1, <<>>)

\* the zero-length buffer
EmptyDoc == <<>>

\* HelloDoc followed by n spaces
Padded(n) == HelloDoc \o [i \in 1..n |-> 32]

\* the bytes of HelloDoc from its startxref line on
StartxrefLineLen == Len(t_xs_startxref \o Dec(XrefOffset(Header, HelloObjects)) \o t_eof)

\* HelloDoc padded until its startxref line is the first thing in the last
\* TailWindow bytes, padded one byte more, and padded by a whole window
EdgeDoc == Padded(TailWindow - StartxrefLineLen)

PastEdgeDoc == Padded(TailWindow - StartxrefLineLen + 1)

LateDoc == Padded(TailWindow)

\* a startxref that points at bytes that are no cross-reference section, and
\* one that points at an object that is no stream
NonStreamTargetDoc == Header \o Obj(1, b_A1).bytes \o t_xs_startxref \o Dec(Len(Header)) \o t_eof

NoStartDoc == b_NoStart

GarbageTargetDoc == b_GarbageTarget

\* "/Encrypt 9 0 R "
t_encrypt == <<47, 69, 110, 99, 114, 121, 112, 116, 32, 57, 32, 48, 32, 82, 32>>

\* "/Length 3 0 R"
b_LengthRef3 == <<47, 76, 101, 110, 103, 116, 104, 32, 51, 32, 48, 32, 82>>

\* "/Length 5 0 R"
b_LengthRef5 == <<47, 76, 101, 110, 103, 116, 104, 32, 53, 32, 48, 32, 82>>

\* "10"
b_Ten == <<49, 48>>

\* "<< /Type /Pages /MediaBox [0 0 200 300] /Resources << /F 1 >> /Count 2 /Kids [<< /Type /Pages /Parent 2 0 R /Count 2 /Kids [<< /Type /Page /Parent 3 0 R >> << /Type /Page >>] >>] >>"
b_PagesInherit ==
    <<60, 60, 32, 47, 84, 121, 112, 101, 32, 47, 80, 97, 103, 101, 115, 32, 47, 77, 101, 100,
    105, 97, 66, 111, 120, 32, 91, 48, 32, 48, 32, 50, 48, 48, 32, 51, 48, 48, 93, 32, 47, 82,
    101, 115, 111, 117, 114, 99, 101, 115, 32, 60, 60, 32, 47, 70, 32, 49, 32, 62, 62, 32, 47,
    67, 111, 117, 110, 116, 32, 50, 32, 47, 75, 105, 100, 115, 32, 91, 60, 60, 32, 47, 84, 121,
    112, 101, 32, 47, 80, 97, 103, 101, 115, 32, 47, 80, 97, 114, 101, 110, 116, 32, 50, 32, 48,
    32, 82, 32, 47, 67, 111, 117, 110, 116, 32, 50, 32, 47, 75, 105, 100, 115, 32, 91, 60, 60,
    32, 47, 84, 121, 112, 101, 32, 47, 80, 97, 103, 101, 32, 47, 80, 97, 114, 101, 110, 116, 32,
    51, 32, 48, 32, 82, 32, 62, 62, 32, 60, 60, 32, 47, 84, 121, 112, 101, 32, 47, 80, 97, 103,
    101, 32, 62, 62, 93, 32, 62, 62, 93, 32, 62, 62>>

\* "<< /Type /Pages /Parent 2 0 R /Count 2 >>"
b_PagesMiddle ==
    <<60, 60, 32, 47, 84, 121, 112, 101, 32, 47, 80, 97, 103, 101, 115, 32, 47, 80, 97, 114,
    101, 110, 116, 32, 50, 32, 48, 32, 82, 32, 47, 67, 111, 117, 110, 116, 32, 50, 32, 62, 62>>

\* HelloDoc, a whole window of spaces, and then the incremental update of
\* UpdatedDoc: the startxref of the first section lies before the window
LateUpdatedDoc == Classic(LateDoc, UpdateObjects, XrefOffset(Header, HelloObjects), <<>>)

\* the same with /Encrypt in the trailer of the update, and none in the first
EncryptedDoc == Classic(LateDoc, UpdateObjects, XrefOffset(Header, HelloObjects), t_encrypt)

\* the documents whose newest section is the one construction starts from
LateUpdatedDocs == {LateUpdatedDoc, EncryptedDoc}

\* the trailer dictionary of the newest section of doc, as the bytes from
\* its last "trailer" keyword on
NewestTrailerBytes(doc) ==
    SliceFrom(doc, 7 + CHOOSE p \in 0..(Len(doc) - 1) :
                         /\ StartsAt(doc, p, kw_trailer)
                         /\ \A q \in (p + 1)..(Len(doc) - 1) : ~StartsAt(doc, q, kw_trailer))

\* HelloDoc with a trailer whose /Prev names its own section
SelfPrevDoc == Classic(Header, HelloObjects, XrefOffset(Header, HelloObjects), <<>>)

\* two streams whose /Length is a reference: 3 0 R, where object 3 is the
\* number 10, and 5 0 R, where the document has no object 5
LengthRefDoc ==
    Classic(Header, <<Obj(1, b_Catalog), StreamObj(2, b_LengthRef3, b_HelloTj),
                      Obj(3, b_Ten), StreamObj(4, b_LengthRef5, b_HelloTj)>>, -1, <<>>)

\* a page tree of depth two written inside /Kids: the root defines /MediaBox
\* and /Resources, the node between it and the pages (also object 3) defines
\* neither, one page names that node as its /Parent, one has no /Parent
InheritDoc ==
    Classic(Header, <<Obj(1, b_Catalog), Obj(2, b_PagesInherit), Obj(3, b_PagesMiddle),
                      Obj(4, b_New)>>, -1, <<>>)

\* "<< /Type /Pages /Count 3 /Kids [3 0 R << /Type /Page /Rotate 270 >>] >>"
b_PagesTree ==
    <<60, 60, 32, 47, 84, 121, 112, 101, 32, 47, 80, 97, 103, 101, 115, 32, 47, 67, 111, 117,
    110, 116, 32, 51, 32, 47, 75, 105, 100, 115, 32, 91, 51, 32, 48, 32, 82, 32, 60, 60, 32, 47,
    84, 121, 112, 101, 32, 47, 80, 97, 103, 101, 32, 47, 82, 111, 116, 97, 116, 101, 32, 50, 55,
    48, 32, 62, 62, 93, 32, 62, 62>>

\* "<< /Type /Pages /Parent 2 0 R /Count 2 /Kids [<< /Type /Page /Rotate 90 >> << /Type /Page /Rotate 180 >>] >>"
b_PagesLeft ==
    <<60, 60, 32, 47, 84, 121, 112, 101, 32, 47, 80, 97, 103, 101, 115, 32, 47, 80, 97, 114,
    101, 110, 116, 32, 50, 32, 48, 32, 82, 32, 47, 67, 111, 117, 110, 116, 32, 50, 32, 47, 75,
    105, 100, 115, 32, 91, 60, 60, 32, 47, 84, 121, 112, 101, 32, 47, 80, 97, 103, 101, 32, 47,
    82, 111, 116, 97, 116, 101, 32, 57, 48, 32, 62, 62, 32, 60, 60, 32, 47, 84, 121, 112, 101,
    32, 47, 80, 97, 103, 101, 32, 47, 82, 111, 116, 97, 116, 101, 32, 49, 56, 48, 32, 62, 62,
    93, 32, 62, 62>>

\* "/Rotate"
n_Rotate == <<47, 82, 111, 116, 97, 116, 101>>

\* a page tree of depth two: the first kid of the root, object 2, is the Pages
\* node 3, named as 3 0 R, with two pages written inside its /Kids; the
\* second kid of the root is a page written inside /Kids
TreeDoc ==
    Classic(Header, <<Obj(1, b_Catalog), Obj(2, b_PagesTree), Obj(3, b_PagesLeft),
                      Obj(4, b_New)>>, -1, <<>>)

\* the buffers a reader is constructed from
Documents ==
    {HelloDoc, UpdatedDoc, StreamOverTableDoc, TableOverStreamDoc, StreamOverStreamDoc,
     CycleDoc, ParentBoxDoc, NoBoxDoc, BadEscapeDoc, EmptyDoc, NoStartDoc, EdgeDoc,
     PastEdgeDoc, LateDoc, GarbageTargetDoc, NonStreamTargetDoc, LateUpdatedDoc,
     EncryptedDoc, SelfPrevDoc, LengthRefDoc, InheritDoc, TreeDoc}

\* ------------------------------------------------------------------- writer

n_Count == <<47, 67, 111, 117, 110, 116>>                                 \* "/Count"
n_Catalog == <<47, 67, 97, 116, 97, 108, 111, 103>>                   \* "/Catalog"
n_Producer == <<47, 80, 114, 111, 100, 117, 99, 101, 114>>             \* "/Producer"
n_Info == <<47, 73, 110, 102, 111>>                                     \* "/Info"
n_Resources == <<47, 82, 101, 115, 111, 117, 114, 99, 101, 115>>                \* "/Resources"
s_mypypdf == <<109, 121, 112, 121, 112, 100, 102>>                  \* "mypypdf"

\* text.encode(): the UTF-8 bytes of a string of code points
RECURSIVE Utf8Encode(_)
Utf8Encode(text) ==
    IF text = <<>> THEN <<>>
    ELSE LET c == text[1]
             Cont(shift) == 128 + ((c \div shift) % 64)
         IN (CASE c < 128 -> <<c>>
               [] c >= 128 /\ c < 2048 -> <<192 + (c \div 64), Cont(1)>>
               [] c >= 2048 /\ c < 65536 -> <<224 + (c \div 4096), Cont(64), Cont(1)>>
               [] OTHER -> <<240 + (c \div 262144), Cont(4096), Cont(64), Cont(1)>>)
            \o Utf8Encode(Tail(text))

\* bs.hex()
RECURSIVE HexOf(_)
HexOf(bs) ==
    IF bs = <<>> THEN <<>>
    ELSE LET Digit(v) == IF v < 10 THEN 48 + v ELSE 87 + v
         IN <<Digit(bs[1] \div 16), Digit(bs[1] % 16)>> \o HexOf(Tail(bs))

\* str(n) of an integer
Str(n) == IF n < 0 THEN <<45>> \o Dec(-n) ELSE Dec(n)

\* NumberObject.write_to_stream: str() of an integer; of a float its value to
\* six decimals without the trailing zeros and point, which for a value of at
\* most six decimals are the digits it was parsed from
WriteNumber(o) ==
    IF ~o.real THEN Str(o.v)
    ELSE LET whole == Dec(IF o.v < 0 THEN -o.v ELSE o.v)
             frac == StripZeros(Slice(o.frac, 0, 6))
         IN (IF o.neg THEN <<45>> ELSE <<>>) \o whole
            \o (IF frac = <<>> THEN <<>> ELSE <<46>> \o frac)

\* StringObject.write_to_stream and HexStringObject.write_to_stream
WriteString(o) ==
    IF o.hex THEN <<60>> \o HexOf(Utf8Encode(o.v)) \o <<62>>
    ELSE <<40>> \o Utf8Encode(Replace(Replace(Replace(o.v, <<92>>, <<92, 92>>),
                                              <<40>>, <<92, 40>>),
                                      <<41>>, <<92, 41>>)) \o <<41>>

\* obj.write_to_stream(stream): the bytes an object writes. A dictionary
\* writes its entries in the order iterating it gives them; a stream sets its
\* /Length to the length of its raw bytes first.
RECURSIVE write_to_stream(_)
write_to_stream(o) ==
    LET WriteDict(d) ==
            LET keys == KeysOf(d)
            IN <<60, 60>>
               \o Concat([i \in 1..Len(keys) |->
                             <<10>> \o keys[i].name \o <<32>>
                             \o write_to_stream(d[keys[i].name])])
               \o <<10, 62, 62>>
    IN CASE o.t = "Null" -> kw_null
         [] o.t = "Bool" -> IF o.v THEN kw_true ELSE kw_false
         [] o.t = "Num" -> WriteNumber(o)
         [] o.t = "Name" -> o.name
         [] o.t = "Str" -> WriteString(o)
         [] o.t = "Array" ->
                <<91>> \o Join([i \in 1..Len(o.items) |-> write_to_stream(o.items[i])], <<32>>)
                \o <<93>>
         [] o.t = "Ref" -> Dec(o.num) \o <<32>> \o Dec(o.gen) \o <<32, 82>>
         [] o.t = "Stream" ->
                WriteDict(DictSet(o.d, n_Length, IntObject(Len(o.data))))
                \o <<10>> \o kw_stream \o <<10>> \o o.data \o <<10>> \o kw_endstream
         [] OTHER -> WriteDict(o.d)

\* list.insert(pos, x)
Insert(list, pos, x) ==
    Let(Clamp(pos, Len(list)), LAMBDA p :
    SubSeq(list, 1, p) \o <<x>> \o SubSeq(list, p + 1, Len(list)))

\* an entry of _objects that is one of the writer's own dictionaries: the list
\* holds the object itself, which the writer goes on changing
Own(attr) == [t |-> "Own", attr |-> attr]

\* writer._add_object(obj): the writer it leaves and the reference it returns
_add_object(w, obj) ==
    [writer |-> [w EXCEPT !.objects = Append(@, obj)],
     ref |-> IndirectObject(Len(w.objects) + 1, 0)]

\* writer._setup_document(): the pages root is object 1, the catalog object 2,
\* and the information dictionary is not added
_setup_document(w) ==
    LET pages_root == DictionaryObject((n_Type :> NameObject(n_Pages))
                                       @@ (n_Kids :> ArrayObject(<<>>))
                                       @@ (n_Count :> IntObject(0)))
        added == _add_object([w EXCEPT !.pages_root = pages_root], Own("_pages_root"))
        root == DictionaryObject((n_Type :> NameObject(n_Catalog)) @@ (n_Pages :> added.ref))
    IN [_add_object([added.writer EXCEPT !.root = root], Own("_root")).writer
           EXCEPT !.info = DictionaryObject(n_Producer :> StringObject(s_mypypdf))]

\* PdfWriter()
PdfWriter ==
    _setup_document([objects |-> <<>>, pages |-> <<>>, pages_root |-> None,
                     root |-> None, info |-> None])

\* the object that an entry of _objects is
ObjectOf(w, entry) ==
    IF entry.t # "Own" THEN entry
    ELSE CASE entry.attr = "_pages_root" -> w.pages_root
           [] entry.attr = "_root" -> w.root
           [] OTHER -> w.info

\* the object number of the first entry of _objects that is obj, 0 if none is
EntryNumber(w, obj) ==
    LET hits == {i \in 1..Len(w.objects) : w.objects[i] = obj}
    IN IF hits = {} THEN 0 ELSE CHOOSE i \in hits : \A j \in hits : i <= j

\* writer._get_pages_ref()
_get_pages_ref(w) ==
    IF EntryNumber(w, Own("_pages_root")) # 0
    THEN [writer |-> w, ref |-> IndirectObject(EntryNumber(w, Own("_pages_root")), 0)]
    ELSE _add_object(w, Own("_pages_root"))

\* add_page that appends the reference to /Kids whatever the index
add_page_kids_at_end(w, page, index) ==
    LET got == _get_pages_ref(w)
        new_page == IF page.t = "Page" THEN page
                    ELSE PageObject(page.d @@ (n_Type :> NameObject(n_Page)))
        parented == [new_page EXCEPT !.d = DictSet(@, n_Parent, got.ref)]
        added == _add_object(got.writer, parented)
        kids == added.writer.pages_root.d[n_Kids].items
        at == IF index.t = "None" THEN Len(added.writer.pages) ELSE index.v
        listed == [added.writer EXCEPT
                      !.pages_root.d[n_Kids] = ArrayObject(Append(kids, added.ref)),
                      !.pages = Insert(@, at, parented)]
    IN [writer |-> [listed EXCEPT !.pages_root.d[n_Count] = IntObject(Len(listed.pages))],
        page |-> parented, exc |-> ""]

\* writer.add_page(page, index) for a page that is a PageObject or another
\* dictionary and an index that is None or an integer: the writer it leaves,
\* the page as the call leaves it, the exception. Anything but a dictionary
\* makes update() raise before the writer is touched.
add_page(w, page, index) ==
    LET Added(p) ==
            LET got == _get_pages_ref(w)
                parented == [p EXCEPT !.d = DictSet(@, n_Parent, got.ref)]
                added == _add_object(got.writer, parented)
                kids == added.writer.pages_root.d[n_Kids].items
                _pages == added.writer.pages
                listed ==
                    IF index.t = "None"
                    THEN [added.writer EXCEPT
                              !.pages_root.d[n_Kids] = ArrayObject(Append(kids, added.ref)),
                              !.pages = Append(_pages, parented)]
                    ELSE [added.writer EXCEPT
                              !.pages_root.d[n_Kids] = ArrayObject(Insert(kids, index.v, added.ref)),
                              !.pages = Insert(_pages, index.v, parented)]
            IN [writer |-> [listed EXCEPT
                               !.pages_root.d[n_Count] = IntObject(Len(listed.pages))],
                page |-> parented, exc |-> ""]
    IN IF page.t = "Page" THEN Added(page)
       ELSE IF IsDictLike(page)
       THEN Added(PageObject([k \in DOMAIN page.d \cup {n_Type} |->
                                 IF k \in DOMAIN page.d THEN page.d[k]
                                 ELSE NameObject(n_Page)]))
       ELSE [writer |-> w, page |-> page, exc |-> "TypeError"]

\* writer.insert_page(page, index)
insert_page(w, page, index) == add_page(w, page, index)

\* create_blank_page(width, height)
create_blank_page(width, height) ==
    PageObject((n_Type :> NameObject(n_Page))
               @@ (n_MediaBox :> ArrayObject(<<IntObject(0), IntObject(0),
                                               IntObject(width), IntObject(height)>>))
               @@ (n_Resources :> DictionaryObject(EmptyDict)))

\* writer.add_blank_page(width, height)
add_blank_page(w, width, height) == add_page(w, create_blank_page(width, height), None)

w_marker == <<37, 226, 227, 207, 211, 10>>                               \* b"%\xe2\xe3\xcf\xd3\n"
w_endobj == <<10, 101, 110, 100, 111, 98, 106, 10, 10>>             \* b"\nendobj\n\n"
w_trailer == <<116, 114, 97, 105, 108, 101, 114, 10>>               \* b"trailer\n"
w_eof == <<37, 37, 69, 79, 70, 10>>                                   \* b"%%EOF\n"

\* writer._write_to_stream(stream): the bytes written and the writer it
\* leaves. The objects of _objects are written and listed in the xref table,
\* the trailer gets its /Size, and only then is the information dictionary
\* added to _objects and written, after the table.
_write_to_stream(w) ==
    LET n == Len(w.objects)
        head == Header \o w_marker
        Body(i, obj) == Dec(i) \o t_obj \o write_to_stream(obj) \o w_endobj
        bodies == [i \in 1..n |-> Body(i, ObjectOf(w, w.objects[i]))]
        positions == [i \in 1..n |-> Len(head) + Len(Concat(SubSeq(bodies, 1, i - 1)))]
        xref_pos == Len(head) + Len(Concat(bodies))
        table == t_xref_0 \o Dec(n + 1) \o <<10>> \o t_free
                 \o Concat([i \in 1..n |-> Pad10(positions[i]) \o t_in_use])
        sized == n_Size :> IntObject(n + 1)
        rooted == IF EntryNumber(w, Own("_root")) = 0 THEN sized
                  ELSE DictSet(sized, n_Root, IndirectObject(EntryNumber(w, Own("_root")), 0))
        info_ref == _add_object(w, Own("_info"))
        trailer == DictionaryObject(DictSet(rooted, n_Info, IndirectObject(n + 1, 0)))
    IN [writer |-> info_ref.writer,
        out |-> head \o Concat(bodies) \o table
                \o Body(n + 1, w.info)
                \o w_trailer \o write_to_stream(trailer) \o <<10>>
                \o t_xs_startxref \o Dec(xref_pos) \o <<10>> \o w_eof]

\* ------------------------------------------------------------------- merger

\* list(range(a, b))
Range(a, b) == [k \in 1..(b - a) |-> a + k - 1]

\* the loop of merge over page_indices: self._pages after it
RECURSIVE InsertPages(_, _, _, _)
InsertPages(pages, insert_pos, page_indices, source) ==
    IF page_indices = <<>> THEN pages
    ELSE LET i == page_indices[1]
         IN IF 0 <= i /\ i < Len(source)
            THEN InsertPages(Insert(pages, insert_pos, source[i + 1]), insert_pos + 1,
                             Tail(page_indices), source)
            ELSE InsertPages(pages, insert_pos, Tail(page_indices), source)

\* a list of pages, as the pages property caches it in self._pages
PageList(items) == [t |-> "List", items |-> items]

\* PdfMerger(): a writer of its own, no pages, no readers, open
PdfMerger == [writer |-> PdfWriter, pages |-> <<>>, readers |-> <<>>, closed |-> FALSE]

\* reader.pages: the reader with its page list built and the exception of
\* building it
pages(r) ==
    IF r.pages.t = "List" THEN [reader |-> r, parsed |-> <<>>, exc |-> ""]
    ELSE Let(PagesOf(r), LAMBDA w :
         [reader |-> [r EXCEPT !.pages = PageList(w.pages), !.objects = w.objects],
          parsed |-> w.parsed, exc |-> w.exc])

\* merger.merge(position, fileobj, pages) for a fileobj that is a reader or
\* the bytes of a document, and pages that is None or a list of integers:
\* the merger it leaves and the exception it raised
merge(m, position, fileobj, page_range) ==
    LET Readers(reader) ==
            IF fileobj.t = "Reader" THEN m.readers ELSE Append(m.readers, reader)
        Inserted(got, source, page_indices) ==
            IF got.exc # "" THEN [merger |-> [m EXCEPT !.readers = Readers(got.reader)],
                                  exc |-> got.exc]
            ELSE [merger |-> [m EXCEPT !.readers = Readers(got.reader),
                                       !.pages = InsertPages(m.pages, position,
                                                             page_indices, source)],
                  exc |-> ""]
        Ranged(got, source) ==
            Inserted(got, source,
                     IF page_range.t = "None" THEN Range(0, Len(source))
                     ELSE IF Len(page_range.items) = 2
                     THEN Range(page_range.items[1], page_range.items[2])
                     ELSE page_range.items)
        Made(made) ==
            IF made.exc # "" THEN [merger |-> m, exc |-> made.exc]
            ELSE IF /\ page_range.t = "List"
                    /\ \/ page_range.items = <<>>
                       \/ /\ Len(page_range.items) = 2
                          /\ page_range.items[2] <= page_range.items[1]
                 THEN [merger |-> [m EXCEPT !.readers = Readers(made.reader)], exc |-> ""]
            ELSE Let(pages(made.reader), LAMBDA got : Ranged(got, got.reader.pages.items))
    IN IF m.closed THEN [merger |-> m, exc |-> "RuntimeError"]
       ELSE Made(IF fileobj.t = "Reader" THEN [reader |-> fileobj, exc |-> ""]
                 ELSE PdfReader(fileobj.data))

\* an append that inserts at the front: merge(0, fileobj, pages)
append_at_front(m, fileobj, page_range) == merge(m, 0, fileobj, page_range)

\* merger.append(fileobj, pages)
append(m, fileobj, page_range) == merge(m, Len(m.pages), fileobj, page_range)

\* the loop of write over self._pages: the writer after it and the pages, each
\* as add_page leaves it
RECURSIVE AddPages(_, _)
AddPages(w, list) ==
    IF list = <<>> THEN [writer |-> w, list |-> <<>>]
    ELSE LET got == add_page(w, list[1], None)
             rest == AddPages(got.writer, Tail(list))
         IN [writer |-> rest.writer, list |-> <<got.page>> \o rest.list]

\* merger.write(fileobj): the merger it leaves, the bytes it put in fileobj,
\* the exception. The pages are the objects the merger's readers collected;
\* no operation of the merger reads a reader's list again, and the readers
\* keep the values collected.
write(m) ==
    IF m.closed THEN [merger |-> m, out |-> <<>>, exc |-> "RuntimeError"]
    ELSE LET added == AddPages(m.writer, m.pages)
             written == _write_to_stream(added.writer)
         IN [merger |-> [m EXCEPT !.writer = written.writer, !.pages = added.list],
             out |-> written.out, exc |-> ""]

\* close that empties the lists and leaves the merger open
close_left_open(m) == [m EXCEPT !.pages = <<>>, !.readers = <<>>]

\* merger.close()
close(m) == [m EXCEPT !.pages = <<>>, !.readers = <<>>, !.closed = TRUE]

\* merger.__exit__(exc_type, exc_val, exc_tb), as leaving a with-block calls it
__exit__(m) == close(m)

\* ------------------------------------------------------------ state machine

\* the largest object number a caller asks get_object for
MaxObjNum == 5

\* the most merge and append calls that return on one merger
MaxAppends == 2

\* the most times a caller has get_object parse one object number
MaxParses == 2

\* the most pages a caller adds to one writer
MaxPages == 3

\* the most write calls on one writer or merger
MaxWrites == 2

VARIABLES
    input,      \* the buffer the constructor was given
    reader,     \* the reader it returned; NoReader before it and after it raised
    parses,     \* how many times get_object parsed each object number from the buffer
    stream,     \* a stream object: its entries, its _data, its _decoded_data
    merger,     \* a merger: its _writer, its _pages, its _readers, its _closed
    appended,   \* the documents of the merger's calls that returned, and whether
                \* all of them were append calls with pages=None
    writer,     \* a writer: its _objects, its _pages, its three dictionaries
    output,     \* the bytes the last write call put in its stream
    last,       \* the last call: its name, its argument, what it returned
    raised      \* the exception the last call raised, "" for none

vars == <<input, reader, parses, stream, merger, appended, writer, output, last, raised>>

readerVars == <<input, reader, parses>>

mergerVars == <<merger, appended>>

writerVars == <<writer, output>>

\* a call, its argument and what it returned
Call(op, arg, ret) == [op |-> op, arg |-> arg, ret |-> ret]

\* parses with the object numbers of parsed counted in
RECURSIVE Count(_, _)
Count(counts, parsed) ==
    IF parsed = <<>> THEN counts
    ELSE Let(parsed[1], LAMBDA n :
         Count([k \in DOMAIN counts \cup {n} |->
                   IF k = n THEN (IF n \in DOMAIN counts THEN counts[n] ELSE 0) + 1
                   ELSE counts[k]],
               Tail(parsed)))

\* the byte strings a stream is given as its data: a zlib stream of one
\* stored block that holds "Hi", the same with a wrong checksum, cut short,
\* with a wrong header, and two that are no zlib streams at all
z_Hi == <<120, 1, 1, 2, 0, 253, 255, 72, 105, 0, 251, 0, 178>>

Payloads ==
    {<<>>, z_Hi, [z_Hi EXCEPT ![13] = 179], SubSeq(z_Hi, 1, 9), [z_Hi EXCEPT ![2] = 2],
     b_HelloTj, <<120>>}

\* the values a stream is given as its /Filter
Filters ==
    {NameObject(n_FlateDecode), NameObject(n_Fl), NameObject(n_Length),
     ArrayObject(<<NameObject(n_FlateDecode)>>),
     ArrayObject(<<NameObject(n_Fl), NameObject(n_FlateDecode)>>), ArrayObject(<<>>)}

\* the documents a merger is given, as bytes
MergerDocuments == {ParentBoxDoc, NoBoxDoc, HelloDoc, EmptyDoc}

\* the page ranges a merger is given
PageRanges == {None, PageList(<<0, 1>>), PageList(<<1>>), PageList(<<1, 0, 2>>)}

Init ==
    /\ input = <<>>
    /\ reader = NoReader
    /\ parses = [n \in {} |-> 0]
    /\ stream = [d |-> EmptyDict, data |-> <<>>, decoded |-> None]
    /\ merger = PdfMerger
    /\ appended = [docs |-> <<>>, plain |-> TRUE]
    /\ writer = PdfWriter
    /\ output = <<>>
    /\ last = Call("", None, None)
    /\ raised = ""

\* reader = PdfReader(buf)
Construct(buf) ==
    LET Made(made) == /\ input' = buf
                      /\ reader' = made.reader
                      /\ raised' = made.exc
    IN /\ last.op = ""
       /\ Made(PdfReader(buf))
       /\ last' = Call("PdfReader", None, None)
       /\ UNCHANGED <<parses, stream, merger, appended, writerVars>>

\* reader.get_object(ref)
GetObject(ref) ==
    LET Returned(got) == /\ reader' = [reader EXCEPT !.objects = got.objects]
                         /\ parses' = Count(parses, got.parsed)
                         /\ last' = Call("get_object", ref, got.ret)
                         /\ raised' = got.exc
    IN /\ reader.t = "Reader"
       /\ (ObjNumOf(ref).num \in DOMAIN parses => parses[ObjNumOf(ref).num] < MaxParses)
       /\ Returned(get_object(reader.data, reader.xref, reader.objects, ref, {}))
       /\ UNCHANGED <<input, stream, merger, appended, writerVars>>

\* reader.pages
Pages ==
    LET Returned(got) == /\ reader' = got.reader
                         /\ parses' = Count(parses, got.parsed)
                         /\ last' = Call("pages", None,
                                         IF got.exc = "" THEN got.reader.pages ELSE None)
                         /\ raised' = got.exc
    IN /\ reader.t = "Reader"
       /\ Returned(pages(reader))
       /\ UNCHANGED <<input, stream, merger, appended, writerVars>>

\* reader.pages[i - 1].mediabox, the page list built
Mediabox(i) ==
    LET Returned(got) == /\ reader' = [reader EXCEPT !.objects = got.objects]
                         /\ parses' = Count(parses, got.parsed)
                         /\ last' = Call("mediabox", i,
                                         IF got.exc = "" THEN got.rect ELSE None)
                         /\ raised' = got.exc
    IN /\ reader.t = "Reader"
       /\ reader.pages.t = "List"
       /\ i \in 1..Len(reader.pages.items)
       /\ Returned(mediabox(reader.data, reader.xref, reader.objects,
                            reader.pages.items[i]))
       /\ UNCHANGED <<input, stream, merger, appended, writerVars>>

\* reader.pages[i - 1].extract_text(), the page list built
ExtractText(i) ==
    LET Returned(got) == /\ reader' = [reader EXCEPT !.objects = got.objects]
                         /\ parses' = Count(parses, got.parsed)
                         /\ last' = Call("extract_text", i,
                                         IF got.exc = "" THEN got.text ELSE None)
                         /\ raised' = got.exc
    IN /\ reader.t = "Reader"
       /\ reader.pages.t = "List"
       /\ i \in 1..Len(reader.pages.items)
       /\ Returned(extract_text(reader.data, reader.xref, reader.objects,
                                reader.pages.items[i]))
       /\ UNCHANGED <<input, stream, merger, appended, writerVars>>

\* the numbers of the pages of the page list, none before it is built
PageNumbers ==
    IF reader.t = "Reader" /\ reader.pages.t = "List" THEN 1..Len(reader.pages.items)
    ELSE {}

Next ==
    \/ \E buf \in Documents : Construct(buf)
    \/ \E n \in 0..MaxObjNum : GetObject(IntObject(n)) \/ GetObject(IndirectObject(n, 0))
    \/ Pages
    \/ \E i \in PageNumbers : Mediabox(i) \/ ExtractText(i)

Spec == Init /\ [][Next]_vars

\* stream[NameObject("Filter")] = f
SetFilter(f) ==
    /\ stream' = [stream EXCEPT !.d = DictSet(stream.d, n_Filter, f)]
    /\ last' = Call("__setitem__", f, None)
    /\ raised' = ""
    /\ UNCHANGED <<readerVars, mergerVars, writerVars>>

\* stream.data = value
SetData(value) ==
    /\ stream' = [stream EXCEPT !.data = value, !.decoded = None]
    /\ last' = Call("data.setter", value, None)
    /\ raised' = ""
    /\ UNCHANGED <<readerVars, mergerVars, writerVars>>

\* stream.data
GetData ==
    /\ last' = Call("data", None,
                    IF stream.decoded # None THEN stream.decoded
                    ELSE [t |-> "Bytes", data |-> stream.data])
    /\ raised' = ""
    /\ UNCHANGED <<stream, readerVars, mergerVars, writerVars>>

\* stream.decode_data()
DecodeData ==
    LET Decoded(got) ==
            /\ last' = Call("decode_data", None,
                            IF got.exc = "" THEN [t |-> "Bytes", data |-> got.out] ELSE None)
            /\ raised' = got.exc
            /\ stream' = IF got.exc = ""
                         THEN [stream EXCEPT !.decoded = [t |-> "Bytes", data |-> got.out]]
                         ELSE stream
    IN /\ IF stream.decoded # None
          THEN /\ last' = Call("decode_data", None, stream.decoded)
               /\ raised' = ""
               /\ UNCHANGED stream
          ELSE Decoded(DecodeBytes(stream.d, stream.data))
       /\ UNCHANGED <<readerVars, mergerVars, writerVars>>

NextStream ==
    \/ \E f \in Filters : SetFilter(f)
    \/ \E value \in Payloads : SetData(value)
    \/ GetData
    \/ DecodeData

SpecStream == Init /\ [][NextStream]_vars

\* what a call of the merger leaves: the merger, the documents of the calls
\* that returned
Merged(got, doc, plain) ==
    /\ merger' = got.merger
    /\ appended' = IF got.exc = ""
                   THEN [docs |-> Append(appended.docs, doc),
                         plain |-> appended.plain /\ plain]
                   ELSE appended
    /\ raised' = got.exc

\* merger.append(doc, pages=page_range)
AppendDoc(doc, page_range) ==
    /\ Len(appended.docs) < MaxAppends
    /\ Merged(append(merger, [t |-> "Bytes", data |-> doc], page_range), doc,
              page_range = None)
    /\ last' = Call("append", doc, None)
    /\ UNCHANGED <<readerVars, stream, writerVars>>

\* merger.append(PdfReader(doc))
AppendReader(doc) ==
    LET Made(made) == /\ made.exc = ""
                      /\ Merged(append(merger, made.reader, None), doc, TRUE)
    IN /\ Len(appended.docs) < MaxAppends
       /\ Made(PdfReader(doc))
       /\ last' = Call("append", doc, None)
       /\ UNCHANGED <<readerVars, stream, writerVars>>

\* merger.merge(position, doc, pages=page_range)
MergeDoc(position, doc, page_range) ==
    /\ Len(appended.docs) < MaxAppends
    /\ Merged(merge(merger, position, [t |-> "Bytes", data |-> doc], page_range), doc,
              FALSE)
    /\ last' = Call("merge", doc, None)
    /\ UNCHANGED <<readerVars, stream, writerVars>>

\* merger.close()
Close ==
    /\ merger' = close(merger)
    /\ last' = Call("close", None, None)
    /\ raised' = ""
    /\ UNCHANGED <<appended, readerVars, stream, writerVars>>

\* the write calls a writer has served
Writes(w) == Cardinality({i \in 1..Len(w.objects) : w.objects[i] = Own("_info")})

\* merger.write(fileobj): a write call that returned is not an append call
WriteMerged ==
    LET Written(got) ==
            /\ merger' = got.merger
            /\ output' = got.out
            /\ appended' = IF got.exc = "" THEN [appended EXCEPT !.plain = FALSE]
                           ELSE appended
            /\ raised' = got.exc
    IN /\ Writes(merger.writer) < MaxWrites
       /\ Written(write(merger))
       /\ last' = Call("write", None, None)
       /\ UNCHANGED <<readerVars, stream, writer>>

\* leaving a with-block of the merger
Exit ==
    /\ merger' = __exit__(merger)
    /\ last' = Call("__exit__", None, None)
    /\ raised' = ""
    /\ UNCHANGED <<appended, readerVars, stream, writerVars>>

NextMerger ==
    \/ \E doc \in MergerDocuments, page_range \in PageRanges : AppendDoc(doc, page_range)
    \/ \E doc \in MergerDocuments : AppendReader(doc)
    \/ \E doc \in MergerDocuments, position \in 0..Len(merger.pages) :
           MergeDoc(position, doc, None)
    \/ WriteMerged
    \/ Close
    \/ Exit

SpecMerger == Init /\ [][NextMerger]_vars

\* the pages a writer is given: two pages that differ in /Rotate and a
\* dictionary that is not a PageObject
WriterPages ==
    {PageObject((n_Type :> NameObject(n_Page)) @@ (n_Rotate :> IntObject(0))),
     PageObject((n_Type :> NameObject(n_Page)) @@ (n_Rotate :> IntObject(90))),
     DictionaryObject(n_Rotate :> IntObject(180))}

\* the indices a caller inserts a page at
WriterIndices == {0, 1, -1}

\* what a call of the writer that adds a page leaves
PageAdded(op, page, got, ret) ==
    /\ writer' = got.writer
    /\ raised' = got.exc
    /\ last' = Call(op, page, IF got.exc = "" THEN ret ELSE None)
    /\ UNCHANGED <<readerVars, stream, mergerVars, output>>

\* writer.add_page(page)
AddPage(page) ==
    /\ Len(writer.pages) < MaxPages
    /\ PageAdded("add_page", page, add_page(writer, page, None), None)

\* writer.insert_page(page, index)
InsertPage(page, index) ==
    /\ Len(writer.pages) < MaxPages
    /\ PageAdded("insert_page", page, insert_page(writer, page, IntObject(index)), None)

\* writer.add_blank_page()
AddBlankPage ==
    LET Blank(got) == PageAdded("add_blank_page", None, got, got.page)
    IN /\ Len(writer.pages) < MaxPages
       /\ Blank(add_blank_page(writer, 612, 792))

\* writer.write(stream)
Write ==
    LET Written(got) == /\ writer' = got.writer
                        /\ output' = got.out
    IN /\ Writes(writer) < MaxWrites
       /\ Written(_write_to_stream(writer))
       /\ last' = Call("write", None, None)
       /\ raised' = ""
       /\ UNCHANGED <<readerVars, stream, mergerVars>>

NextWriter ==
    \/ \E page \in WriterPages : AddPage(page)
    \/ \E page \in WriterPages, index \in WriterIndices : InsertPage(page, index)
    \/ AddBlankPage
    \/ Write

SpecWriter == Init /\ [][NextWriter]_vars

\* the largest run of whitespace bytes put before a token
MaxWs == 2

\* the longest text put between the parentheses of a literal string
MaxBody == 4

\* the six whitespace bytes of PDF: space, tab, CR, LF, formfeed, null
WsBytes == {32, 9, 13, 10, 12, 0}

\* the runs of at most MaxWs whitespace bytes
WsRuns == UNION {[1..n -> WsBytes] : n \in 0..MaxWs}

\* "12"
p_Int == <<49, 50>>

\* "-3.5"
p_Real == <<45, 51, 46, 53>>

\* "1 0 R"
p_Ref == <<49, 32, 48, 32, 82>>

\* "12 3 R"
p_Ref2 == <<49, 50, 32, 51, 32, 82>>

\* "/Na"
p_Name == <<47, 78, 97>>

\* "(a(b)c)"
p_Literal == <<40, 97, 40, 98, 41, 99, 41>>

\* "<41>"
p_Hex == <<60, 52, 49, 62>>

\* "[1 /A]"
p_Array == <<91, 49, 32, 47, 65, 93>>

\* "<< /A 1 >>"
p_Dict == <<60, 60, 32, 47, 65, 32, 49, 32, 62, 62>>

\* "<< /A (\8) >>"
p_DictEscape == <<60, 60, 32, 47, 65, 32, 40, 92, 56, 41, 32, 62, 62>>

\* "<<1 /A 2>>"
p_DictNumberKey == <<60, 60, 49, 32, 47, 65, 32, 50, 62, 62>>

\* "<< /A"
p_DictOpen == <<60, 60, 32, 47, 65>>

\* "R"
p_R == <<82>>

\* "[1 /A"
p_ArrayOpen == <<91, 49, 32, 47, 65>>

\* the tokens the object parser is given
ParserTokens ==
    {kw_null, kw_true, kw_false, p_Int, p_Real, p_Ref, p_Ref2, p_Name, p_Literal, p_Hex,
     p_Array, p_Dict, p_DictEscape, p_DictNumberKey, p_DictOpen,
     p_ArrayOpen, p_R}

\* what follows a token: nothing, or one whitespace byte and the letter B
Followers == {<<>>} \cup {<<w, 66>> : w \in WsBytes}

\* the bytes a literal string is made of: ( ) \ 1 8 n
LiteralBytes == {40, 41, 92, 49, 56, 110}

\* the texts of at most MaxBody of these bytes
LiteralBodies == UNION {[1..n -> LiteralBytes] : n \in 0..MaxBody}

\* the buffers the object parser is given: a run of whitespace, a token and a
\* follower, or a literal string
ParserInputs ==
    {ws \o token \o follower : ws \in WsRuns, token \in ParserTokens, follower \in Followers}
    \cup {<<40>> \o body \o <<41>> : body \in LiteralBodies}

InitParser ==
    /\ input \in ParserInputs
    /\ reader = NoReader
    /\ parses = [n \in {} |-> 0]
    /\ stream = [d |-> EmptyDict, data |-> <<>>, decoded |-> None]
    /\ merger = PdfMerger
    /\ appended = [docs |-> <<>>, plain |-> TRUE]
    /\ writer = PdfWriter
    /\ output = <<>>
    /\ last = Call("", None, None)
    /\ raised = ""

\* what a call of a parsing function leaves: the pair it returned, or the
\* exception it raised
ParserReturned(op, idx, got) ==
    /\ last' = Call(op, idx, IF got.exc = "" THEN [obj |-> got.obj, idx |-> got.idx] ELSE None)
    /\ raised' = got.exc
    /\ UNCHANGED <<readerVars, stream, mergerVars, writerVars>>

\* self._parse_object(data, idx)
ParseObject(idx) ==
    /\ idx <= Len(input)
    /\ ParserReturned("_parse_object", idx, _parse_object(input, idx))

\* self._parse_dictionary(data, idx), which _parse_object calls with idx on "<<"
ParseDictionary(idx) ==
    /\ StartsAt(input, idx, kw_dict_open)
    /\ ParserReturned("_parse_dictionary", idx, _parse_dictionary(input, idx))

\* self._parse_literal_string(data, idx), which _parse_object calls with idx on "("
ParseLiteralString(idx) ==
    /\ At(input, idx) = 40
    /\ ParserReturned("_parse_literal_string", idx, _parse_literal_string(input, idx))

NextParser ==
    \/ \E idx \in 0..MaxWs : ParseObject(idx)
    \/ \E idx \in 0..MaxWs : ParseDictionary(idx)
    \/ \E idx \in 0..MaxWs : ParseLiteralString(idx)

SpecParser == InitParser /\ [][NextParser]_vars

\* the most text-showing operators of a content stream
MaxOps == 2

\* the bytes a literal operand is made of: ( ) \ n b 1
TextBytes == {40, 41, 92, 110, 98, 49}

\* the texts of at most MaxBody of these bytes
TextBodies == UNION {[1..n -> TextBytes] : n \in 0..MaxBody}

\* the content stream "(body) Tj"
LiteralTj(body) == <<40>> \o body \o <<41, 32>> \o kw_Tj

\* "(A) Tj"
c_LiteralA == <<40, 65, 41, 32, 84, 106>>

\* "[(B)] TJ"
c_ArrayB == <<91, 40, 66, 41, 93, 32, 84, 74>>

\* "<0043> Tj"
c_HexC == <<60, 48, 48, 52, 51, 62, 32, 84, 106>>

\* three text-showing operators and the text each shows: a literal operand
\* of Tj, an array operand of TJ, a hexadecimal operand of Tj
TextOps ==
    {[bytes |-> c_LiteralA, text |-> <<65>>], [bytes |-> c_ArrayB, text |-> <<66>>],
     [bytes |-> c_HexC, text |-> <<67>>]}

\* the sequences of at most MaxOps of them
OpSeqs == UNION {[1..n -> TextOps] : n \in 1..MaxOps}

\* the content stream that holds the operators ops, one on a line
ContentOf(ops) == Join([i \in 1..Len(ops) |-> ops[i].bytes], <<10>>)

\* the content streams a page is given
Contents == {LiteralTj(body) : body \in TextBodies} \cup {ContentOf(ops) : ops \in OpSeqs}

InitText ==
    /\ input \in Contents
    /\ reader = NoReader
    /\ parses = [n \in {} |-> 0]
    /\ stream = [d |-> EmptyDict, data |-> <<>>, decoded |-> None]
    /\ merger = PdfMerger
    /\ appended = [docs |-> <<>>, plain |-> TRUE]
    /\ writer = PdfWriter
    /\ output = <<>>
    /\ last = Call("", None, None)
    /\ raised = ""

\* page.extract_text() of a page whose /Contents is a stream with the bytes
\* of input
ExtractTextOfContent ==
    LET Extracted(got) ==
            /\ last' = Call("extract_text", None, IF got.exc = "" THEN got.text ELSE None)
            /\ raised' = got.exc
    IN /\ Extracted(extract_text(<<>>, [n \in {} |-> 0], EmptyDict,
                                 PageObject((n_Type :> NameObject(n_Page))
                                            @@ (n_Contents :> StreamObject(EmptyDict, input)))))
       /\ UNCHANGED <<readerVars, stream, mergerVars, writerVars>>

NextText == ExtractTextOfContent

SpecText == InitText /\ [][NextText]_vars

\* ---------------------------------------------------------------- properties

\* "Hello"
t_Hello == <<72, 101, 108, 108, 111>>

\* a "startxref", whitespace and a digit that lie in the last TailWindow bytes
\* of buf, read off the buffer byte by byte
TokenInTail(buf) ==
    \E p \in 1..Len(buf), q \in 1..Len(buf) :
        /\ p > Len(buf) - TailWindow
        /\ p + 9 < q
        /\ SubSeq(buf, p, p + 8) = kw_startxref
        /\ \A k \in (p + 9)..(q - 1) : buf[k] \in ReSpace
        /\ buf[q] \in DigitBytes

\* the same token anywhere in buf
TokenAnywhere(buf) ==
    \E p \in 1..Len(buf), q \in 1..Len(buf) :
        /\ p + 9 < q
        /\ SubSeq(buf, p, p + 8) = kw_startxref
        /\ \A k \in (p + 9)..(q - 1) : buf[k] \in ReSpace
        /\ buf[q] \in DigitBytes

\* the page list of a reader constructed from doc
PagesOfDocument(doc) == pages(PdfReader(doc).reader).reader.pages.items

\* C1: for the one-page document HelloDoc (one classic table, the page listed
\* in /Kids as 3 0 R, the content stream "(Hello) Tj") reader.pages holds
\* exactly one page and extract_text of that page returns "Hello"
C1_HelloOnePage ==
    (input = HelloDoc /\ reader.t = "Reader" /\ reader.pages.t = "List") =>
        /\ Len(reader.pages.items) = 1
        /\ (last.op = "extract_text" /\ last.arg = 1) => (raised = "" /\ last.ret = t_Hello)

\* C2: for a document whose newest section gives the object UpdatedNumber the
\* offset A and whose older section, reached through /Prev, gives it B, the
\* xref map after construction holds A, and get_object returns the object
\* parsed at A
C2_NewestSectionWins ==
    (input \in UpdatedDocs /\ reader.t = "Reader") =>
        /\ UpdatedNumber \in DOMAIN reader.xref
        /\ reader.xref[UpdatedNumber][1] = NewestOffset(input)
        /\ (last.op = "get_object" /\ raised = ""
            /\ ObjNumOf(last.arg).num = UpdatedNumber) =>
               last.ret = _parse_indirect_object(input, reader.xref, EmptyDict,
                                                 NewestOffset(input), {}).obj

\* C3: whatever get_object calls were made on the reader, every object number
\* was parsed from the buffer at most once, and a get_object call for a number
\* of the xref map leaves the value it returned in the cache
C3_ParsedAtMostOnce ==
    /\ \A n \in DOMAIN parses : parses[n] <= 1
    /\ (reader.t = "Reader" /\ last.op = "get_object" /\ raised = ""
        /\ ObjNumOf(last.arg).num \in DOMAIN reader.xref) =>
           /\ ObjNumOf(last.arg).num \in DOMAIN reader.objects
           /\ reader.objects[ObjNumOf(last.arg).num] = last.ret

\* C4: a get_object call for an object number that is not in the xref map
\* returns None, raises nothing and leaves the cache and the xref map as
\* they were
C4_AbsentNumber ==
    [][(reader.t = "Reader" /\ last'.op = "get_object"
        /\ ObjNumOf(last'.arg).num \notin DOMAIN reader.xref) =>
           /\ last'.ret = None
           /\ raised' = ""
           /\ reader'.objects = reader.objects
           /\ reader'.xref = reader.xref]_vars

\* a get_object call for an absent number has returned on a reader with a
\* non-empty xref map and a non-empty cache
C4_AbsentNumberAsked ==
    /\ reader.t = "Reader"
    /\ last.op = "get_object"
    /\ DOMAIN reader.xref # {}
    /\ DOMAIN reader.objects # {}
    /\ ObjNumOf(last.arg).num \notin DOMAIN reader.xref
    /\ last.ret = None

\* C5: for CycleDoc, whose /Kids names the page 3 and then the Pages node
\* itself, reader.pages returns, raises nothing and holds the one page met
\* before the cycle
C5_PagesBeforeCycle ==
    (input = CycleDoc /\ last.op = "pages") =>
        /\ raised = ""
        /\ Len(last.ret.items) = 1
        /\ DictGet(last.ret.items[1], n_Type) = NameObject(n_Page)

\* C6: the page of ParentBoxDoc that has no /MediaBox of its own and whose
\* /Parent defines [0 0 200 300] has the mediabox (0, 0, 200, 300), and every
\* page of NoBoxDoc, which has no /MediaBox anywhere, has (0, 0, 612, 792)
C6_InheritedMediaBox ==
    /\ (input = ParentBoxDoc /\ last.op = "mediabox" /\ last.arg = 1) =>
           /\ raised = ""
           /\ last.ret = <<IntObject(0), IntObject(0), IntObject(200), IntObject(300)>>
    /\ (input = NoBoxDoc /\ last.op = "mediabox") =>
           /\ raised = ""
           /\ last.ret = USLetter

\* C7: decode_data of a stream whose /Filter is the name /FlateDecode or /Fl
\* and whose raw bytes zlib does not inflate returns the raw bytes and raises
\* nothing
C7_FlateFallback ==
    (/\ last.op = "decode_data"
     /\ DictGet(stream, n_Filter) \in {NameObject(n_FlateDecode), NameObject(n_Fl)}
     /\ ~ZlibDecompress(stream.data).ok) =>
        /\ raised = ""
        /\ last.ret = [t |-> "Bytes", data |-> stream.data]

\* decode_data has returned the non-empty raw bytes of a stream with
\* /Filter /FlateDecode that zlib does not inflate
C7_CorruptPayloadDecoded ==
    /\ last.op = "decode_data"
    /\ DictGet(stream, n_Filter) = NameObject(n_FlateDecode)
    /\ stream.data # <<>>
    /\ ~ZlibDecompress(stream.data).ok
    /\ last.ret = [t |-> "Bytes", data |-> stream.data]

\* C8: constructing a reader from the empty buffer raises EmptyFileError, from
\* a non-empty buffer with no startxref token in its last TailWindow bytes
\* PdfReadError, and neither leaves a reader
C8_NoStartxrefNoReader ==
    (last.op = "PdfReader") =>
        /\ (input = <<>> => (raised = "EmptyFileError" /\ reader = NoReader))
        /\ (input # <<>> /\ ~TokenInTail(input)) =>
               (raised = "PdfReadError" /\ reader = NoReader)

\* construction has raised PdfReadError for a buffer that holds a startxref
\* token, but not in its last TailWindow bytes
C8_TokenBeforeTheTail ==
    /\ last.op = "PdfReader"
    /\ TokenAnywhere(input)
    /\ ~TokenInTail(input)
    /\ raised = "PdfReadError"
    /\ reader = NoReader

\* C9: construction from a non-empty buffer with a startxref token in its
\* last TailWindow bytes returns a reader and raises nothing
C9_OnlyTwoFatal ==
    (last.op = "PdfReader" /\ input # <<>> /\ TokenInTail(input)) =>
        /\ raised = ""
        /\ reader.t = "Reader"

\* C10: while the merger is open and every call that returned was an append
\* with pages=None, merger.pages is the concatenation of the page lists of
\* the appended documents, in the order of the calls
C10_AppendConcatenates ==
    (appended.plain /\ ~merger.closed) =>
        merger.pages = Concat([i \in 1..Len(appended.docs) |->
                                  PagesOfDocument(appended.docs[i])])

\* two different documents with pages have been appended with pages=None
C10_TwoDocumentsAppended ==
    /\ appended.plain
    /\ ~merger.closed
    /\ Len(appended.docs) = 2
    /\ appended.docs[1] # appended.docs[2]
    /\ PagesOfDocument(appended.docs[1]) # <<>>
    /\ PagesOfDocument(appended.docs[2]) # <<>>
    /\ Len(merger.pages) = 4

\* the trailer dictionary of the newest section of doc
NewestTrailer(doc) == _parse_object(NewestTrailerBytes(doc), 0).obj

\* C11: for a document of two sections linked by /Prev whose older trailer
\* has no /Encrypt, so that the merged trailer has /Encrypt exactly when the
\* newest trailer has it, is_encrypted after construction is true if and only
\* if /Encrypt is in the newest trailer
C11_EncryptOfNewestTrailer ==
    (input \in LateUpdatedDocs /\ reader.t = "Reader") =>
        (reader.is_encrypted <=> n_Encrypt \in DOMAIN NewestTrailer(input).d)

\* C13: after construction over two sections linked by /Prev the trailer of
\* the reader, from which pages and metadata take /Root and /Info, is the
\* trailer of the newest section
C13_TrailerOfNewestSection ==
    (input \in LateUpdatedDocs /\ reader.t = "Reader") =>
        reader.trailer = NewestTrailer(input)

\* C14: the streams 2 and 4 of LengthRefDoc, whose /Length is 3 0 R with
\* object 3 the number 10 and 5 0 R with no object 5, are returned by
\* get_object with the ten bytes "(Hello) Tj" as their body: the first sliced
\* by the resolved length, the second up to the endstream token
C14_LengthReferenceResolved ==
    (input = LengthRefDoc /\ last.op = "get_object" /\ ObjNumOf(last.arg).num \in {2, 4}) =>
        /\ raised = ""
        /\ last.ret.t = "Stream"
        /\ last.ret.data = b_HelloTj

\* C15: construction from SelfPrevDoc, whose trailer names its own section
\* as /Prev, returns a reader that holds the entries of that section
C15_CyclicPrevTerminates ==
    (input = SelfPrevDoc /\ last.op = "PdfReader") =>
        /\ raised = ""
        /\ reader.t = "Reader"
        /\ DOMAIN reader.xref = {1, 2, 3, 4}

\* C16: every page of InheritDoc, where only the root of the page tree, two
\* levels above the pages, defines /MediaBox [0 0 200 300], has the mediabox
\* (0, 0, 200, 300)
C16_MediaBoxOfGrandparent ==
    (input = InheritDoc /\ last.op = "mediabox") =>
        /\ raised = ""
        /\ last.ret = <<IntObject(0), IntObject(0), IntObject(200), IntObject(300)>>

\* C17: every page of the page list of InheritDoc, none of which has a
\* /Resources of its own, carries the /Resources of the root of the page
\* tree, the nearest node above it that defines one
C17_ResourcesInherited ==
    (input = InheritDoc /\ reader.t = "Reader" /\ reader.pages.t = "List") =>
        \A i \in 1..Len(reader.pages.items) :
            /\ n_Resources \in DOMAIN reader.pages.items[i].d
            /\ reader.pages.items[i].d[n_Resources]
                   = _parse_object(b_PagesInherit, 0).obj.d[n_Resources]

\* C12: with its cursor on a sequence "<digits> <digits> R" the object parser
\* returns one IndirectObject that carries that object number and generation,
\* and a cursor just past the R
C12_ReferenceParsed ==
    LET ref == RefMatch(input, last.arg)
    IN (last.op = "_parse_object" /\ ref # <<>>) =>
           /\ raised = ""
           /\ last.ret.obj = IndirectObject(ref[1], ref[2])
           /\ last.ret.idx = ref[3]

\* C18: dictionary parsing with the cursor on "<<" raises no exception and
\* returns a dictionary and a cursor
C18_DictionaryNeverRaises ==
    last.op = "_parse_dictionary" =>
        /\ raised = ""
        /\ last.ret.obj.t = "Dict"
        /\ last.ret.idx \in Nat

\* the octal digits
OctalDigits == 48..55

\* the character the escape of byte c denotes: \n \r \t \b \f \( \) \\
EscapeChar(c) ==
    CASE c = 110 -> 10
      [] c = 114 -> 13
      [] c = 116 -> 9
      [] c = 98 -> 8
      [] c = 102 -> 12
      [] c \in {40, 41, 92} -> c

\* the text between the parentheses of a literal string has balanced
\* parentheses, and each backslash of it starts one of the escapes \n \r \t
\* \b \f \( \) \\ or an octal escape; depth counts the parentheses left open
RECURSIVE Balanced(_, _)
Balanced(text, depth) ==
    CASE text = <<>> -> depth = 0
      [] text # <<>> /\ text[1] = 92 ->
             /\ Len(text) >= 2
             /\ text[2] \in {110, 114, 116, 98, 102, 40, 41, 92} \cup OctalDigits
             /\ Balanced(SubSeq(text, 3, Len(text)), depth)
      [] text # <<>> /\ text[1] = 40 -> Balanced(Tail(text), depth + 1)
      [] text # <<>> /\ text[1] = 41 -> depth > 0 /\ Balanced(Tail(text), depth - 1)
      [] OTHER -> Balanced(Tail(text), depth)

\* the octal digits, at most three, that text starts with
OctalRun(text) ==
    SubSeq(text, 1, CHOOSE n \in 0..3 :
                        /\ n <= Len(text)
                        /\ \A i \in 1..n : text[i] \in OctalDigits
                        /\ (n = 3 \/ n = Len(text) \/ text[n + 1] \notin OctalDigits))

\* the characters a text between the parentheses of a literal string denotes:
\* each escape and each octal escape of one to three digits is one
\* character, every other byte, a parenthesis too, is itself
RECURSIVE Denoted(_)
Denoted(text) ==
    CASE text = <<>> -> <<>>
      [] text # <<>> /\ text[1] # 92 -> <<text[1]>> \o Denoted(Tail(text))
      [] text # <<>> /\ text[1] = 92 /\ text[2] \in OctalDigits ->
             <<OctVal(OctalRun(Tail(text)))>>
                 \o Denoted(SubSeq(text, 2 + Len(OctalRun(Tail(text))), Len(text)))
      [] OTHER -> <<EscapeChar(text[2])>> \o Denoted(SubSeq(text, 3, Len(text)))

\* C19: for a literal string whose inner parentheses are balanced the parser
\* returns the text between the outermost parentheses, the inner ones kept
\* and each escape replaced by the character it denotes, and the cursor just
\* past the closing parenthesis
C19_LiteralStringDecoded ==
    LET text == SubSeq(input, 2, Len(input) - 1)
    IN (/\ last.op = "_parse_literal_string" /\ last.arg = 0
        /\ input[Len(input)] = 41
        /\ Balanced(text, 0)) =>
           /\ raised = ""
           /\ last.ret.obj = StringObject(Denoted(text))
           /\ last.ret.idx = Len(input)

\* C20: the object parser returns from a cursor on a run of the six
\* whitespace bytes what it returns from the cursor past the run, and no
\* name it returns holds one of the six
C20_SixWhitespaceBytes ==
    LET Same(past) ==
            /\ raised = past.exc
            /\ raised = "" => last.ret = [obj |-> past.obj, idx |-> past.idx]
    IN last.op = "_parse_object" =>
           /\ Same(_parse_object(input, SkipWhile(input, last.arg, WsBytes)))
           /\ (raised = "" /\ last.ret.obj.t = "Name") =>
                  \A i \in 1..Len(last.ret.obj.name) : last.ret.obj.name[i] \notin WsBytes

\* C21: decode_data returns what the /Filter entry the stream has now gives
\* for the raw bytes the stream has now, whatever was decoded, assigned or
\* changed before
C21_DecodeOfCurrentState ==
    (last.op = "decode_data" /\ raised = "") =>
        last.ret = [t |-> "Bytes", data |-> DecodeBytes(stream.d, stream.data).out]

\* the names of a /Filter entry: of one name, of an array of names, of no entry
FilterNames(f) ==
    CASE f.t = "Name" -> <<f>>
      [] f.t = "Array" -> f.items
      [] OTHER -> <<>>

\* data after the filters named by names, in their order: inflated for each
\* /FlateDecode and /Fl that zlib inflates, unchanged for every other name
RECURSIVE InOrder(_, _)
InOrder(names, data) ==
    CASE names = <<>> -> data
      [] names # <<>> /\ names[1].name \in {n_FlateDecode, n_Fl} /\ ZlibDecompress(data).ok ->
             InOrder(Tail(names), ZlibDecompress(data).out)
      [] OTHER -> InOrder(Tail(names), data)

\* C22: decode_data returns the raw bytes after the names of /Filter in
\* array order, inflated for each /FlateDecode or /Fl and unchanged for every
\* other name; with no /Filter or only unknown names it returns the raw bytes
C22_FiltersInArrayOrder ==
    last.op = "decode_data" =>
        /\ raised = ""
        /\ last.ret.data = InOrder(FilterNames(DictGet(stream, n_Filter)), stream.data)
        /\ (\A i \in 1..Len(FilterNames(DictGet(stream, n_Filter))) :
                FilterNames(DictGet(stream, n_Filter))[i].name \notin {n_FlateDecode, n_Fl})
               => last.ret.data = stream.data

\* C30: called with a cursor before the end of the data, the object parser
\* returns a cursor strictly greater than the one it was given
C30_ParserProgress ==
    (last.op = "_parse_object" /\ last.arg < Len(input) /\ raised = "") =>
        last.ret.idx > last.arg

\* the object parser has returned from an unterminated array, an unterminated
\* dictionary or an unterminated literal string, with a cursor past the one
\* it was given
C30_UnterminatedParsed ==
    /\ last.op = "_parse_object"
    /\ last.arg = 0
    /\ raised = ""
    /\ input \in {p_ArrayOpen, p_DictOpen, <<40, 40, 49, 41>>}
    /\ last.ret.idx > 0

\* C24: for a content stream "(body) Tj" whose literal string the object
\* parser parses up to its closing parenthesis, extract_text returns the text
\* the object parser returns for the same literal string
C24_SameUnescaping ==
    LET Same(lit) ==
            (lit.exc = "" /\ lit.idx = Len(input) - 3) =>
                (raised = "" /\ last.ret = lit.obj.v)
    IN (last.op = "extract_text" /\ \E body \in TextBodies : input = LiteralTj(body)) =>
           Same(_parse_literal_string(input, 0))

\* C29: for a content stream of text-showing operators, extract_text returns
\* the texts they show in the order the operators occur in the stream
C29_OperatorOrder ==
    \A ops \in OpSeqs :
        (last.op = "extract_text" /\ input = ContentOf(ops)) =>
            /\ raised = ""
            /\ last.ret = Concat([i \in 1..Len(ops) |-> ops[i].text])

\* C25: the /Count of the writer's pages root is the length of its /Kids and
\* of writer.pages, and the i-th of /Kids is the reference of generation 0
\* whose object number holds the i-th of writer.pages
C25_KidsMatchPages ==
    LET root == writer.pages_root.d
        kids == root[n_Kids].items
    IN /\ root[n_Count] = IntObject(Len(kids))
       /\ Len(kids) = Len(writer.pages)
       /\ \A i \in 1..Len(kids) :
              /\ kids[i].t = "Ref"
              /\ kids[i].gen = 0
              /\ kids[i].num \in 1..Len(writer.objects)
              /\ writer.objects[kids[i].num] = writer.pages[i]

\* insert_page has put a third page, the last object added, before two pages
\* that differ from it and from each other
C25_PageInsertedInFront ==
    /\ last.op = "insert_page"
    /\ raised = ""
    /\ Len(writer.pages) = 3
    /\ Cardinality({writer.pages[i] : i \in 1..3}) = 3
    /\ writer.pages[1] = writer.objects[Len(writer.objects)]
    /\ writer.pages_root.d[n_Kids].items[1].num = Len(writer.objects)

\* the run of decimal digits of data that starts at idx
DigitsAt(data, idx) == Slice(data, idx, SkipWhile(data, idx, DigitBytes))

\* the objects of a file: <<k, p>> for every line "k 0 obj" of it, p the
\* offset of the line
ObjectsWritten(file) ==
    {<<DecVal(DigitsAt(file, p)), p>> :
        p \in {q \in 0..(Len(file) - 1) :
                  /\ q = 0 \/ At(file, q - 1) = 10
                  /\ DigitsAt(file, q) # <<>>
                  /\ StartsAt(file, q + Len(DigitsAt(file, q)), t_obj)}}

\* the xref table of a file, found through its last startxref line: the
\* count of its subsection, which starts at 0, and its entries, the k-th 20
\* bytes after the subsection line
XrefTableOf(file) ==
    LET at == CHOOSE i \in 0..Len(file) :
                  /\ StartsAt(file, i, t_xs_startxref)
                  /\ \A j \in (i + 1)..Len(file) : ~StartsAt(file, j, t_xs_startxref)
        xref_pos == DecVal(DigitsAt(file, at + Len(t_xs_startxref)))
        count == DigitsAt(file, xref_pos + Len(t_xref_0))
        first == xref_pos + Len(t_xref_0) + Len(count) + 1
    IN [count |-> DecVal(count),
        entry |-> [k \in 0..(DecVal(count) - 1) |->
                      [offset |-> DecVal(Slice(file, first + EntryLen * k,
                                               first + EntryLen * k + 10)),
                       in_use |-> At(file, first + EntryLen * k + 17) = 110]]]

\* the /Size of the trailer of a file
TrailerSizeOf(file) ==
    DecVal(DigitsAt(file, Find(file, n_Size \o <<32>>, Find(file, w_trailer, 0))
                          + Len(n_Size) + 1))

\* C26: in the file a write call of the writer produced, every object written
\* as "k 0 obj" has an in-use entry in the xref table that holds its offset,
\* and the /Size of the trailer is one more than the highest object number
\* written
C26_EveryObjectListed ==
    (last.op = "write" /\ raised = "") =>
        LET written == ObjectsWritten(output)
            table == XrefTableOf(output)
        IN /\ \A o \in written :
                  /\ o[1] < table.count
                  /\ table.entry[o[1]].in_use
                  /\ table.entry[o[1]].offset = o[2]
           /\ \A o \in written : TrailerSizeOf(output) > o[1]
           /\ \E o \in written : TrailerSizeOf(output) = o[1] + 1

\* the page objects of a file: its dictionaries with the entry /Type /Page
PagesWritten(file) ==
    Cardinality({p \in 0..(Len(file) - 1) :
                    StartsAt(file, p, <<10>> \o n_Type \o <<32>> \o n_Page \o <<10>>)})

\* C27: a write call of the merger that follows a write call, both having
\* returned, leaves the writer with as many pages as the merger has, and puts
\* as many pages in its file as the first put in its own and as the merger has
C27_WriteRepeatable ==
    [][(last.op = "write" /\ raised = "" /\ last'.op = "write" /\ raised' = "") =>
           /\ Len(merger'.writer.pages) = Len(merger'.pages)
           /\ PagesWritten(output') = PagesWritten(output)
           /\ PagesWritten(output') = Len(merger'.pages)]_vars

\* C28: close and leaving a with-block leave the merger closed with no pages;
\* a closed merger stays closed with its page list as it was, and an append,
\* merge or write call on it raises RuntimeError
C28_ClosedIsAbsorbing ==
    [][/\ last'.op \in {"close", "__exit__"} =>
              (merger'.closed /\ merger'.pages = <<>>)
       /\ merger.closed =>
              /\ merger'.closed
              /\ merger'.pages = merger.pages
              /\ merger'.pages = <<>>
              /\ last'.op \in {"append", "merge", "write"} => raised' = "RuntimeError"]_vars

\* a merger that had pages and has written a file was closed, and the write
\* call that followed raised RuntimeError and left it without pages
C28_WriteAfterClose ==
    /\ merger.closed
    /\ merger.pages = <<>>
    /\ merger.writer.pages # <<>>
    /\ last.op = "write"
    /\ raised = "RuntimeError"

\* a page of a page tree, with the /Rotate that tells it from the others
Leaf(rotate) == [kids |-> <<>>, rotate |-> rotate]

\* the page tree of TreeDoc: under the root the node of object 3 with the
\* pages 90 and 180, then the page 270
TreeOfTreeDoc == [kids |-> <<[kids |-> <<Leaf(90), Leaf(180)>>, rotate |-> -1], Leaf(270)>>,
                  rotate |-> -1]

\* the pages of a tree, depth first and left to right
RECURSIVE Flattened(_)
Flattened(node) ==
    IF node.kids = <<>> THEN <<node.rotate>>
    ELSE Concat([i \in 1..Len(node.kids) |-> Flattened(node.kids[i])])

\* C23: the page list of TreeDoc is the depth-first, left-to-right flattening
\* of its page tree: the two pages under the first kid of the root in their
\* order, then the page that is the second kid
C23_DepthFirstFlattening ==
    (input = TreeDoc /\ last.op = "pages") =>
        /\ raised = ""
        /\ [i \in 1..Len(last.ret.items) |-> DictGet(last.ret.items[i], n_Rotate)]
               = [i \in 1..Len(Flattened(TreeOfTreeDoc)) |->
                     IntObject(Flattened(TreeOfTreeDoc)[i])]
====
